---------------------------- MODULE Spec2Model ----------------------------
(***************************************************************************)
(* A model of the lzf-rust crate: the raw LZF token encoder (normal and    *)
(* best mode) and decoder, the "ZV" block framing, and the streaming       *)
(* LzfWriter / LzfReader adapters.                                         *)
(*                                                                         *)
(* Byte buffers are sequences of numbers in 0..255.  The code indexes      *)
(* from 0; At(s, i) and Slice(s, a, b) are the 0-based s[i] and s[a..b].   *)
(* A fallible call returns a record whose err field is "Ok" or the name of *)
(* the crate's Error variant.                                              *)
(***************************************************************************)
EXTENDS Integers, Sequences, FiniteSets, TLC

VARIABLES
    raw,     \* one compress / decompress call pair on a caller's buffer
    tok,     \* one decompress call, token by token: input, ip, output, op
    fr,      \* one encode_blocks / decode_blocks call pair
    w,       \* the LzfWriter: block_size, mode, in_buf, write_eof_marker
    sink,    \* the writer's inner Vec<u8>
    r,       \* the LzfReader: inner (a byte slice), out_buf, out_pos, finished
    env      \* the caller: the data it writes, what its read calls returned

vars == <<raw, tok, fr, w, sink, r, env>>

---------------------------------------------------------------------------
(* Program constants.                                                      *)

MAX_LITERAL_LEN == 32
MAX_OFFSET == 8192
MAX_MATCH_LEN == 264
HASH_LOG == 16
HASH_SIZE == 65536
HASH_BEST_SIZE == 65536
HASH_MULT == 506832829
U16_MAX == 65535
MAGIC_0 == 90
MAGIC_1 == 86
TYPE_UNCOMPRESSED == 0
TYPE_COMPRESSED == 1
TYPE0_HDR_SIZE == 5
TYPE1_HDR_SIZE == 7

(* Bounds of the model.                                                    *)

\* longest input drawn from every string over Alphabet
MaxLen == 6

\* 31, 'w', 'z': among their trigrams hash3 collides on (31,31,122) and
\* (119,119,119), and hash_best3 collides on several pairs.
Alphabet == {31, 119, 122}

Modes == {"Normal", "Best"}

---------------------------------------------------------------------------
(* Buffers.                                                                *)

Min(a, b) == IF a < b THEN a ELSE b

At(s, i) == s[i + 1]

Slice(s, a, b) == SubSeq(s, a + 1, b)

RECURSIVE StringsOf(_, _)
StringsOf(S, n) ==
    IF n = 0 THEN {<<>>}
    ELSE LET shorter == StringsOf(S, n - 1)
         IN  shorter \cup {Append(s, x) : s \in {t \in shorter : Len(t) = n - 1}, x \in S}

\* k bytes, all equal to b
Run(b, k) == [i \in 1..k |-> b]

\* k bytes with no repeated trigram: 0, 1, 2, ...
Ramp(k) == [i \in 1..k |-> (i - 1) % 256]

RECURSIVE Xor(_, _)
Xor(a, b) ==
    IF a = 0 THEN b
    ELSE IF b = 0 THEN a
    ELSE (((a % 2) + (b % 2)) % 2) + 2 * Xor(a \div 2, b \div 2)

\* a zero-initialised array, kept as the map of its non-zero slots
Get(t, k) == IF k \in DOMAIN t THEN t[k] ELSE 0

Put(t, k, v) == (k :> v) @@ t

EmptyTable == <<>>

Res(e, o) == [err |-> e, out |-> o]

---------------------------------------------------------------------------
(* raw/encoder.rs                                                          *)

\* ((v * 0x1e35a7bd) as u32 >> 8) & 0xffff reads bits 8..23 of the product,
\* so the product is taken modulo 2^24, one input byte at a time.
hash3(input, index) ==
    LET m24 == HASH_MULT % 16777216
        b0 == At(input, index)
        b1 == At(input, index + 1)
        b2 == At(input, index + 2)
        low24 == (b2 * m24 + 256 * ((b1 * m24) % 65536)
                    + 65536 * ((b0 * m24) % 256)) % 16777216
    IN  (low24 \div 256) % HASH_SIZE

hash_best3(input, index) ==
    Xor(Xor(At(input, index) * 64, At(input, index + 1) * 8), At(input, index + 2))
        % HASH_BEST_SIZE

RECURSIVE emit_literal_chunks(_, _, _, _, _)
emit_literal_chunks(input, out, cap, cursor, end) ==
    IF cursor < end
    THEN LET chunk == Min(end - cursor, MAX_LITERAL_LEN)
             needed == 1 + chunk
         IN  IF Len(out) + needed > cap
             THEN Res("OutputTooSmall", out)
             ELSE emit_literal_chunks(input,
                      out \o <<(chunk - 1) % 256>> \o Slice(input, cursor, cursor + chunk),
                      cap, cursor + chunk, end)
    ELSE Res("Ok", out)

\* mutant: the control byte of a literal run holds its length
emit_literals_ctrl_len(input, out, cap, start, end) ==
    LET len == end - start
    IN  IF len = 0 THEN Res("Ok", out)
        ELSE IF len <= MAX_LITERAL_LEN
        THEN IF Len(out) + (1 + len) > cap
             THEN Res("OutputTooSmall", out)
             ELSE Res("Ok", out \o <<len % 256>> \o Slice(input, start, end))
        ELSE emit_literal_chunks(input, out, cap, start, end)

emit_literals(input, out, cap, start, end) ==
    LET len == end - start
    IN  IF len = 0 THEN Res("Ok", out)
        ELSE IF len <= MAX_LITERAL_LEN
        THEN IF Len(out) + (1 + len) > cap
             THEN Res("OutputTooSmall", out)
             ELSE Res("Ok", out \o <<(len - 1) % 256>> \o Slice(input, start, end))
        ELSE emit_literal_chunks(input, out, cap, start, end)

\* mutant: the 3-bit length field is used up to 7, the continuation marker
emit_backref_le7(out, cap, off, len) ==
    LET l == len - 2
        needed == IF l <= 7 THEN 2 ELSE 3
    IN  IF Len(out) + needed > cap
        THEN Res("OutputTooSmall", out)
        ELSE IF l <= 7
        THEN Res("Ok", out \o <<((l * 32) % 256) + ((off \div 256) % 256), off % 256>>)
        ELSE Res("Ok", out \o <<224 + ((off \div 256) % 256), (l - 7) % 256, off % 256>>)

emit_backref(out, cap, off, len) ==
    LET l == len - 2
        needed == IF l < 7 THEN 2 ELSE 3
    IN  IF Len(out) + needed > cap
        THEN Res("OutputTooSmall", out)
        ELSE IF l < 7
        THEN Res("Ok", out \o <<((l * 32) % 256) + ((off \div 256) % 256), off % 256>>)
        ELSE Res("Ok", out \o <<224 + ((off \div 256) % 256), (l - 7) % 256, off % 256>>)

(* A loop of the code that may take hundreds of turns is written as its    *)
(* turns lo..mid-1 followed by its turns mid..hi-1: the same turns in the   *)
(* same order, with a recursion depth of log(hi - lo).  TLC evaluates an    *)
(* operator's arguments when they are first used; Evaluated(v) has the      *)
(* first half's result computed before the second half starts.              *)

Evaluated(v) == v = v

\* the match extension loop: while len < max_len && input[c + len] == input[pos + len].
\* match_turns runs the turns at len = lo..hi-1; a turn at k finds the loop
\* already left when len # k.
RECURSIVE match_turns(_, _, _, _, _, _)
match_turns(input, candidate, pos, len, lo, hi) ==
    IF lo >= hi THEN len
    ELSE IF hi = lo + 1
    THEN IF len = lo /\ At(input, candidate + len) = At(input, pos + len)
         THEN len + 1 ELSE len
    ELSE LET mid == (lo + hi) \div 2
             half == match_turns(input, candidate, pos, len, lo, mid)
         IN  IF half < mid THEN half
             ELSE match_turns(input, candidate, pos, half, mid, hi)

match_len(input, candidate, pos, len, max_len) ==
    match_turns(input, candidate, pos, len, len, max_len)

same3(input, p, pos) ==
    /\ At(input, p) = At(input, pos)
    /\ At(input, p + 1) = At(input, pos + 1)
    /\ At(input, p + 2) = At(input, pos + 2)

\* mutant: no position of the match is re-inserted
normal_reinsert_none(input, table, scan, end) == table

\* the re-insertion loop after a match: scan = pos + 1 while scan + 2 < end
RECURSIVE normal_reinsert(_, _, _, _)
normal_reinsert(input, table, scan, end) ==
    IF scan + 2 < end
    THEN IF scan + 3 = end
         THEN Put(table, hash3(input, scan), scan + 1)
         ELSE LET mid == (scan + end - 2) \div 2
                  half == normal_reinsert(input, table, scan, mid + 2)
              IN  IF Evaluated(half) THEN normal_reinsert(input, half, mid, end)
                  ELSE half
    ELSE table

\* a match of len bytes at st.pos: after emit_literals (lit) the
\* back-reference is emitted (ref) and the matched positions are re-inserted
normal_advance(input, st, table1, len, ref) ==
    IF ref.err # "Ok" THEN [st EXCEPT !.err = ref.err]
    ELSE [table |-> normal_reinsert(input, table1, st.pos + 1, st.pos + len),
          out |-> ref.out, anchor |-> st.pos + len, pos |-> st.pos + len,
          err |-> "Ok"]

normal_emit(input, cap, st, table1, off, lit, len) ==
    IF lit.err # "Ok" THEN [st EXCEPT !.err = lit.err]
    ELSE normal_advance(input, st, table1, len,
                        emit_backref(lit.out, cap, off, len))

\* one turn of `while pos + 2 < input.len()`, on the loop's variables
normal_step(input, cap, st) ==
    LET pos == st.pos
        h == hash3(input, pos)
        prev == Get(st.table, h)
        table1 == Put(st.table, h, pos + 1)
        candidate == prev - 1
        off == pos - candidate - 1
    IN  IF /\ prev # 0
           /\ candidate < pos
           /\ off < MAX_OFFSET
           /\ same3(input, candidate, pos)
        THEN normal_emit(input, cap, st, table1, off,
                 emit_literals(input, st.out, cap, st.anchor, pos),
                 match_len(input, candidate, pos, 3,
                           Min(Len(input) - pos, MAX_MATCH_LEN)))
        ELSE [st EXCEPT !.table = table1, !.pos = pos + 1]

\* the turns of the loop entered at pos = lo..hi-1; a position inside a
\* match is skipped (pos # lo), an error ends the loop
RECURSIVE normal_turns(_, _, _, _, _)
normal_turns(input, cap, st, lo, hi) ==
    IF lo >= hi THEN st
    ELSE IF hi = lo + 1
    THEN IF st.pos = lo /\ st.err = "Ok" THEN normal_step(input, cap, st) ELSE st
    ELSE LET mid == (lo + hi) \div 2
             half == normal_turns(input, cap, st, lo, mid)
         IN  IF half.err # "Ok" THEN half
             ELSE normal_turns(input, cap, half, mid, hi)

\* after the loop: emit_literals(input, output, &mut out_idx, anchor, input.len())
emit_tail(input, cap, st) ==
    IF st.err # "Ok" THEN Res(st.err, st.out)
    ELSE emit_literals(input, st.out, cap, st.anchor, Len(input))

compress_normal(input, cap) ==
    IF Len(input) = 0 THEN Res("Ok", <<>>)
    ELSE emit_tail(input, cap,
             normal_turns(input, cap,
                 [table |-> EmptyTable, out |-> <<>>, anchor |-> 0,
                  pos |-> 0, err |-> "Ok"],
                 0, Len(input) - 2))

\* prev[slot] = 0 for an empty head, else min(pos - p, u16::MAX)
chain_link(head, pos) ==
    IF head = 0 THEN 0 ELSE Min(pos - (head - 1), U16_MAX)

\* mutant: the byte at best_len is not tested
walk_len_same3_only(input, pos, max_len, wk) ==
    IF same3(input, wk.p, pos)
    THEN match_len(input, wk.p, pos, 3, max_len)
    ELSE 0

\* the length of the match at wk.p, 0 when the three-byte test or the test
\* of the byte at best_len fails
walk_len(input, pos, max_len, wk) ==
    IF /\ same3(input, wk.p, pos)
       /\ \/ wk.best_len = 0
          \/ At(input, wk.p + wk.best_len) = At(input, pos + wk.best_len)
    THEN match_len(input, wk.p, pos, 3, max_len)
    ELSE 0

\* l >= best_len takes the candidate; diff is prev[p & (MAX_OFFSET - 1)]
walk_take(wk, max_len, diff, l) ==
    LET take == l # 0 /\ l >= wk.best_len
    IN  [p |-> IF diff = 0 \/ wk.p < diff THEN wk.p ELSE wk.p - diff,
         best_len |-> IF take THEN l ELSE wk.best_len,
         best_pos |-> IF take THEN wk.p ELSE wk.best_pos,
         done |-> (take /\ l = max_len) \/ diff = 0 \/ wk.p < diff]

\* one turn of `while p >= lower_bound`, on the walk's variables; done is
\* set by a break and by the loop condition failing
walk_step(input, prev, pos, max_len, lower_bound, wk) ==
    IF wk.p >= lower_bound
    THEN walk_take(wk, max_len, Get(prev, wk.p % MAX_OFFSET),
                   walk_len(input, pos, max_len, wk))
    ELSE [wk EXCEPT !.done = TRUE]

\* up to n turns of the chain walk
RECURSIVE best_walk(_, _, _, _, _, _, _)
best_walk(input, prev, pos, max_len, lower_bound, wk, n) ==
    IF n = 0 \/ wk.done THEN wk
    ELSE IF n = 1 THEN walk_step(input, prev, pos, max_len, lower_bound, wk)
    ELSE LET half == best_walk(input, prev, pos, max_len, lower_bound, wk, n \div 2)
         IN  IF half.done THEN half
             ELSE best_walk(input, prev, pos, max_len, lower_bound, half,
                            n - n \div 2)

\* the re-insertion loop of best mode, on the chain heads and links
RECURSIVE best_reinsert(_, _, _, _, _)
best_reinsert(input, first, prev, scan, end) ==
    IF scan + 2 < end
    THEN IF scan + 3 = end
         THEN LET h == hash_best3(input, scan)
                  s == scan % MAX_OFFSET
              IN  [first |-> Put(first, h, scan + 1),
                   prev |-> Put(prev, s, chain_link(Get(first, h), scan))]
         ELSE LET mid == (scan + end - 2) \div 2
                  half == best_reinsert(input, first, prev, scan, mid + 2)
              IN  IF Evaluated(half)
                  THEN best_reinsert(input, half.first, half.prev, mid, end)
                  ELSE half
    ELSE [first |-> first, prev |-> prev]

\* the match the chain walk from prev_head selects at pos
best_match(input, prev, pos, prev_head) ==
    LET max_len == Min(Len(input) - pos, MAX_MATCH_LEN)
        lower_bound == IF pos > MAX_OFFSET THEN pos - MAX_OFFSET ELSE 0
        \* p falls by diff >= 1 in every turn: at most prev_head turns
    IN  IF prev_head # 0
        THEN best_walk(input, prev, pos, max_len, lower_bound,
                       [p |-> prev_head - 1, best_len |-> 0, best_pos |-> 0,
                        done |-> FALSE], prev_head)
        ELSE [best_len |-> 0, best_pos |-> 0]

\* the heads and links after the re-insertion, with the loop's variables
best_reinserted(st, end, ref, t) ==
    [first |-> t.first, prev |-> t.prev, out |-> ref.out,
     anchor |-> end, pos |-> end, err |-> "Ok"]

best_advance(input, st, first1, prev1, best, ref) ==
    IF ref.err # "Ok" THEN [st EXCEPT !.err = ref.err]
    ELSE best_reinserted(st, st.pos + best.best_len, ref,
             best_reinsert(input, first1, prev1, st.pos + 1,
                           st.pos + best.best_len))

best_emit(input, cap, st, first1, prev1, best, lit) ==
    IF lit.err # "Ok" THEN [st EXCEPT !.err = lit.err]
    ELSE best_advance(input, st, first1, prev1, best,
             emit_backref(lit.out, cap, st.pos - best.best_pos - 1,
                          best.best_len))

\* if best_len >= 3: literals, back-reference, re-insertion
best_take(input, cap, st, first1, prev1, best) ==
    IF best.best_len >= 3
    THEN best_emit(input, cap, st, first1, prev1, best,
                   emit_literals(input, st.out, cap, st.anchor, st.pos))
    ELSE [st EXCEPT !.first = first1, !.prev = prev1, !.pos = st.pos + 1]

\* one turn of `while pos + 2 < in_len`, on the loop's variables
best_step(input, cap, st) ==
    LET pos == st.pos
        hash == hash_best3(input, pos)
        prev_head == Get(st.first, hash)
        slot == pos % MAX_OFFSET
        prev1 == Put(st.prev, slot, chain_link(prev_head, pos))
        first1 == Put(st.first, hash, pos + 1)
    IN  best_take(input, cap, st, first1, prev1,
                  best_match(input, prev1, pos, prev_head))

RECURSIVE best_turns(_, _, _, _, _)
best_turns(input, cap, st, lo, hi) ==
    IF lo >= hi THEN st
    ELSE IF hi = lo + 1
    THEN IF st.pos = lo /\ st.err = "Ok" THEN best_step(input, cap, st) ELSE st
    ELSE LET mid == (lo + hi) \div 2
             half == best_turns(input, cap, st, lo, mid)
         IN  IF half.err # "Ok" THEN half
             ELSE best_turns(input, cap, half, mid, hi)

compress_best_impl(input, cap) ==
    IF Len(input) = 0 THEN Res("Ok", <<>>)
    ELSE emit_tail(input, cap,
             best_turns(input, cap,
                 [first |-> EmptyTable, prev |-> EmptyTable, out |-> <<>>,
                  anchor |-> 0, pos |-> 0, err |-> "Ok"],
                 0, Len(input) - 2))

\* what a caller has of a call: Ok(n) and the n bytes written, or the error
returned(res) == IF res.err = "Ok" THEN res ELSE Res(res.err, <<>>)

\* compress `input` into an output buffer of `cap` bytes: Ok with the bytes
\* written (out[..n]), or the error
compress_with_mode(input, cap, mode) ==
    returned(IF mode = "Normal" THEN compress_normal(input, cap)
             ELSE compress_best_impl(input, cap))

\* mutant: the bound without its last byte
max_compressed_size_no_slack(input_len) == (input_len * 33) \div 32

\* lib.rs: ((input_len * 33) >> 5) + 1
max_compressed_size(input_len) == ((input_len * 33) \div 32) + 1

---------------------------------------------------------------------------
(* raw/decoder.rs                                                          *)

Tok(e, ip, out) == [err |-> e, ip |-> ip, out |-> out]

\* while dst < end { output[dst] = output[src]; dst += 1; src += 1 }
RECURSIVE copy_bytes(_, _, _)
copy_bytes(out, src, n) ==
    IF n = 0 THEN out
    ELSE IF n = 1 THEN Append(out, At(out, src))
    ELSE LET half == copy_bytes(out, src, n \div 2)
         IN  IF Evaluated(half) THEN copy_bytes(half, src + n \div 2, n - n \div 2)
             ELSE half

\* copy_len <= 8: the byte loop
copy_small(out, ref_pos, copy_len) == copy_bytes(out, ref_pos, copy_len)

\* ref_pos + copy_len <= op: split_at_mut(op), tail[..n].copy_from_slice(head[ref..ref + n])
copy_bulk(out, ref_pos, copy_len) == out \o Slice(out, ref_pos, ref_pos + copy_len)

\* mutant: the source range is copied as it is before the copy, the bytes
\* past op read as 0
copy_overlap_snapshot(out, ref_pos, copy_len) ==
    out \o [i \in 1..copy_len |->
              IF ref_pos + i <= Len(out) THEN out[ref_pos + i] ELSE 0]

\* the source overlaps the destination: the byte loop
copy_overlap(out, ref_pos, copy_len) == copy_bytes(out, ref_pos, copy_len)

copy_backref(out, ref_pos, copy_len) ==
    IF copy_len <= 8 THEN copy_small(out, ref_pos, copy_len)
    ELSE IF ref_pos + copy_len <= Len(out) THEN copy_bulk(out, ref_pos, copy_len)
    ELSE copy_overlap(out, ref_pos, copy_len)

\* mutant: a literal run is checked against the input only
literal_overrun_input_only(input, cap, ip, op, len) == ip + len > Len(input)

\* a literal run that overruns the input or the output
literal_overrun(input, cap, ip, op, len) == ip + len > Len(input) \/ op + len > cap

\* mutant: an offset equal to op is let through
backref_check_off_by_one(cap, op, off, copy_len) ==
    IF op + copy_len > cap THEN "OutputTooSmall"
    ELSE IF off > op THEN "InvalidData"
    ELSE "Ok"

\* the two checks of a back-reference, in the order of the code
backref_check(cap, op, off, copy_len) ==
    IF op + copy_len > cap THEN "OutputTooSmall"
    ELSE IF off >= op THEN "InvalidData"
    ELSE "Ok"

\* the fields of the back-reference whose control byte (>= 32) is at ip:
\* whether the input holds all its bytes, its length field (with the
\* continuation byte when the 3-bit field is 7), its offset, the next ip
backref_fields(input, ip) ==
    LET ctrl == At(input, ip)
        len0 == ctrl \div 32
        off_hi == (ctrl % 32) * 256
        ext == len0 = 7
        ip_off == IF ext THEN ip + 2 ELSE ip + 1
    IN  IF ext /\ ip + 1 >= Len(input)
        THEN [complete |-> FALSE, len |-> 0, off |-> 0, ip |-> ip + 1]
        ELSE IF ip_off >= Len(input)
        THEN [complete |-> FALSE, len |-> 0, off |-> 0, ip |-> ip_off]
        ELSE [complete |-> TRUE,
              len |-> IF ext THEN len0 + At(input, ip + 1) ELSE len0,
              off |-> off_hi + At(input, ip_off),
              ip |-> ip_off + 1]

\* the back-reference of fields f is checked and copied onto out.
\* op - off - 1 is a usize: it cannot go below 0 without a panic.
decode_backref(cap, out, f) ==
    LET op == Len(out)
        copy_len == f.len + 2
        chk == backref_check(cap, op, f.off, copy_len)
    IN  IF ~f.complete THEN Tok("InvalidData", f.ip, out)
        ELSE IF chk # "Ok" THEN Tok(chk, f.ip, out)
        ELSE IF op - f.off - 1 < 0 THEN Tok("Panic", f.ip, out)
        ELSE Tok("Ok", f.ip, copy_backref(out, op - f.off - 1, copy_len))

\* one turn of the loop of decompress, entered with ip < input.len(): the
\* token at ip is decoded onto out (the output written so far, op = Len(out)).
decode_token(input, cap, ip, out) ==
    LET ctrl == At(input, ip)
        op == Len(out)
    IN  IF ctrl < 32
        THEN LET len == ctrl + 1
             IN  IF literal_overrun(input, cap, ip + 1, op, len)
                 THEN Tok("InvalidData", ip + 1, out)
                 ELSE Tok("Ok", ip + 1 + len, out \o Slice(input, ip + 1, ip + 1 + len))
        ELSE decode_backref(cap, out, backref_fields(input, ip))

\* the loop of decompress from the outcome t of the tokens before; on an
\* error out holds the bytes written to the output before the failing token
RECURSIVE decompress_loop(_, _, _)
decompress_loop(input, cap, t) ==
    IF t.err = "Ok" /\ t.ip < Len(input)
    THEN decompress_loop(input, cap, decode_token(input, cap, t.ip, t.out))
    ELSE Res(t.err, t.out)

\* decompress `input` into an output buffer of `cap` bytes: Ok with the
\* bytes written (output[..n], n = Len(out)), or the error
decompress(input, cap) == returned(decompress_loop(input, cap, Tok("Ok", 0, <<>>)))

\* a buffer whose first bytes are written over
Overwrite(buf, bytes) == bytes \o SubSeq(buf, Len(bytes) + 1, Len(buf))

\* the output buffer after decompress(input, &mut output): the bytes written
\* over the buffer's old content
decompress_into(input, output) ==
    Overwrite(output, decompress_loop(input, Len(output), Tok("Ok", 0, <<>>)).out)

---------------------------------------------------------------------------
(* framed.rs: the ZV block container.                                      *)

\* mutant: the low byte first
to_le_bytes(n) == <<n % 256, n \div 256>>

\* u16::to_be_bytes and u16::from_be_bytes
to_be_bytes(n) == <<n \div 256, n % 256>>

from_be_bytes(hi, lo) == hi * 256 + lo

\* the body of `for block in input.chunks(block_size)`: the block's frame
frame_block(block, encoded_len) ==
    IF encoded_len.err = "Ok"
    THEN IF Len(encoded_len.out) > U16_MAX \/ Len(block) > U16_MAX
         THEN Res("InvalidParameter", <<>>)
         ELSE Res("Ok", <<MAGIC_0, MAGIC_1, TYPE_COMPRESSED>>
                            \o to_be_bytes(Len(encoded_len.out))
                            \o to_be_bytes(Len(block))
                            \o encoded_len.out)
    ELSE IF encoded_len.err = "OutputTooSmall"
    THEN IF Len(block) > U16_MAX
         THEN Res("InvalidParameter", <<>>)
         ELSE Res("Ok", <<MAGIC_0, MAGIC_1, TYPE_UNCOMPRESSED>>
                            \o to_be_bytes(Len(block)) \o block)
    ELSE Res(encoded_len.err, <<>>)

\* mutant: compression is tried into a buffer as long as the block
encode_block_no_margin(block, mode) ==
    frame_block(block, compress_with_mode(block, Len(block), mode))

\* max_try = block.len().saturating_sub(4); compression is tried if it is not 0
encode_block(block, mode) ==
    frame_block(block,
        IF Len(block) > 4 THEN compress_with_mode(block, Len(block) - 4, mode)
        ELSE Res("OutputTooSmall", <<>>))

\* output.extend_from_slice of a block's frame b, or the error returned
append_block(output, b) ==
    IF b.err # "Ok" THEN Res(b.err, <<>>) ELSE Res("Ok", output \o b.out)

\* the loop over input.chunks(block_size), from the chunk starting at `at`,
\* acc the outcome of the chunks before
RECURSIVE encode_chunks(_, _, _, _, _)
encode_chunks(input, block_size, mode, at, acc) ==
    IF acc.err = "Ok" /\ at < Len(input)
    THEN encode_chunks(input, block_size, mode,
             Min(at + block_size, Len(input)),
             append_block(acc.out,
                 encode_block(Slice(input, at, Min(at + block_size, Len(input))),
                              mode)))
    ELSE acc

encode_blocks_with_mode(input, block_size, mode) ==
    IF block_size = 0 \/ block_size > U16_MAX
    THEN Res("InvalidParameter", <<>>)
    ELSE encode_chunks(input, block_size, mode, 0, Res("Ok", <<>>))

\* mutant: the variant without its byte
UnknownBlockType_unit(t) == "UnknownBlockType"

\* Error::UnknownBlockType(t), the variant with its byte
UnknownBlockType(t) == "UnknownBlockType(" \o ToString(t) \o ")"

\* a step of decode_blocks: the error, the input position and the output
Blk(e, ip, out, brk) == [err |-> e, ip |-> ip, out |-> out, brk |-> brk]

\* let written = decompress(..)?; if written != uncompressed_len { InvalidData }
decoded_block(output, ip1, compressed_len, uncompressed_len, written) ==
    IF written.err # "Ok" THEN Blk(written.err, ip1, output, FALSE)
    ELSE IF Len(written.out) # uncompressed_len
    THEN Blk("InvalidData", ip1, output, FALSE)
    ELSE Blk("Ok", ip1 + compressed_len, output \o written.out, FALSE)

\* mutant: only the first magic byte is compared
decode_block_magic0(input, ip, output) ==
    IF At(input, ip) = 0 THEN Blk("Ok", ip, output, TRUE)
    ELSE IF Len(input) - ip < TYPE0_HDR_SIZE THEN Blk("InvalidHeader", ip, output, FALSE)
    ELSE IF At(input, ip) # MAGIC_0
    THEN Blk("InvalidHeader", ip, output, FALSE)
    ELSE LET block_type == At(input, ip + 2)
         IN  IF block_type = TYPE_UNCOMPRESSED
             THEN LET uncompressed_len == from_be_bytes(At(input, ip + 3), At(input, ip + 4))
                      ip1 == ip + TYPE0_HDR_SIZE
                  IN  IF Len(input) - ip1 < uncompressed_len
                      THEN Blk("InvalidData", ip1, output, FALSE)
                      ELSE Blk("Ok", ip1 + uncompressed_len,
                               output \o Slice(input, ip1, ip1 + uncompressed_len), FALSE)
             ELSE IF block_type = TYPE_COMPRESSED
             THEN IF Len(input) - ip < TYPE1_HDR_SIZE
                  THEN Blk("InvalidHeader", ip, output, FALSE)
                  ELSE LET compressed_len == from_be_bytes(At(input, ip + 3), At(input, ip + 4))
                           uncompressed_len == from_be_bytes(At(input, ip + 5), At(input, ip + 6))
                           ip1 == ip + TYPE1_HDR_SIZE
                       IN  IF Len(input) - ip1 < compressed_len
                           THEN Blk("InvalidData", ip1, output, FALSE)
                           ELSE decoded_block(output, ip1, compressed_len,
                                    uncompressed_len,
                                    decompress(Slice(input, ip1, ip1 + compressed_len),
                                               uncompressed_len))
             ELSE Blk(UnknownBlockType(block_type), ip, output, FALSE)

\* one turn of `while ip < input.len()` of decode_blocks, entered with
\* ip < input.len(); brk is the `break` on a zero byte
decode_block(input, ip, output) ==
    IF At(input, ip) = 0 THEN Blk("Ok", ip, output, TRUE)
    ELSE IF Len(input) - ip < TYPE0_HDR_SIZE THEN Blk("InvalidHeader", ip, output, FALSE)
    ELSE IF At(input, ip) # MAGIC_0 \/ At(input, ip + 1) # MAGIC_1
    THEN Blk("InvalidHeader", ip, output, FALSE)
    ELSE LET block_type == At(input, ip + 2)
         IN  IF block_type = TYPE_UNCOMPRESSED
             THEN LET uncompressed_len == from_be_bytes(At(input, ip + 3), At(input, ip + 4))
                      ip1 == ip + TYPE0_HDR_SIZE
                  IN  IF Len(input) - ip1 < uncompressed_len
                      THEN Blk("InvalidData", ip1, output, FALSE)
                      ELSE Blk("Ok", ip1 + uncompressed_len,
                               output \o Slice(input, ip1, ip1 + uncompressed_len), FALSE)
             ELSE IF block_type = TYPE_COMPRESSED
             THEN IF Len(input) - ip < TYPE1_HDR_SIZE
                  THEN Blk("InvalidHeader", ip, output, FALSE)
                  ELSE LET compressed_len == from_be_bytes(At(input, ip + 3), At(input, ip + 4))
                           uncompressed_len == from_be_bytes(At(input, ip + 5), At(input, ip + 6))
                           ip1 == ip + TYPE1_HDR_SIZE
                       IN  IF Len(input) - ip1 < compressed_len
                           THEN Blk("InvalidData", ip1, output, FALSE)
                           ELSE decoded_block(output, ip1, compressed_len,
                                    uncompressed_len,
                                    decompress(Slice(input, ip1, ip1 + compressed_len),
                                               uncompressed_len))
             ELSE Blk(UnknownBlockType(block_type), ip, output, FALSE)

\* the outcome b of the block that starts at ip, a failure placed at ip
at_block(ip, b) == IF b.err # "Ok" THEN Blk(b.err, ip, b.out, FALSE) ELSE b

\* the loop of decode_blocks from the outcome b of the blocks before; where
\* it ends: on an error ip is the start of the failing block and out the
\* output of the blocks before it
RECURSIVE decode_loop(_, _)
decode_loop(input, b) ==
    IF b.err = "Ok" /\ ~b.brk /\ b.ip < Len(input)
    THEN decode_loop(input, at_block(b.ip, decode_block(input, b.ip, b.out)))
    ELSE b

\* Ok(output), or the error of the failing block
decode_result(d) == IF d.err = "Ok" THEN Res("Ok", d.out) ELSE Res(d.err, <<>>)

decode_blocks(input) == decode_result(decode_loop(input, Blk("Ok", 0, <<>>, FALSE)))

---------------------------------------------------------------------------
(* stream.rs: LzfWriter over a sink that accepts every byte (a Vec<u8>).   *)

\* the bytes a block puts into the sink, or the error
write_frame(block, c) ==
    IF c.err = "Ok"
    THEN IF Len(c.out) > U16_MAX \/ Len(block) > U16_MAX
         THEN Res("InvalidParameter", <<>>)
         ELSE Res("Ok", <<MAGIC_0, MAGIC_1, TYPE_COMPRESSED>>
                            \o to_be_bytes(Len(c.out))
                            \o to_be_bytes(Len(block))
                            \o c.out)
    ELSE IF c.err # "OutputTooSmall"
    THEN Res(c.err, <<>>)
    ELSE IF Len(block) > U16_MAX
    THEN Res("InvalidParameter", <<>>)
    ELSE Res("Ok", <<MAGIC_0, MAGIC_1, TYPE_UNCOMPRESSED>>
                       \o to_be_bytes(Len(block)) \o block)

\* max_try = block.len().saturating_sub(4); with max_try = 0 the block is
\* stored as it would be after Err(OutputTooSmall)
write_block_into(mode, block) ==
    write_frame(block,
        IF Len(block) > 4 THEN compress_with_mode(block, Len(block) - 4, mode)
        ELSE Res("OutputTooSmall", <<>>))

\* mutant: only the upper bound of block_size is tested
new_writer_upper(block_size, mode, eof_marker) ==
    IF block_size > U16_MAX
    THEN [err |-> "InvalidParameter"]
    ELSE [err |-> "Ok", block_size |-> block_size, mode |-> mode,
          in_buf |-> <<>>, write_eof_marker |-> eof_marker]

\* LzfWriter::new_with_mode and new_with_eof_marker_and_mode
new_writer(block_size, mode, eof_marker) ==
    IF block_size = 0 \/ block_size > U16_MAX
    THEN [err |-> "InvalidParameter"]
    ELSE [err |-> "Ok", block_size |-> block_size, mode |-> mode,
          in_buf |-> <<>>, write_eof_marker |-> eof_marker]

\* the result of a writer call: the error, the writer and the sink after it
Wr(e, wr, snk) == [err |-> e, w |-> wr, sink |-> snk]

\* write_block_into(..)?; consumed += self.block_size
whole_block(st, block_size, b) ==
    IF b.err # "Ok" THEN [st EXCEPT !.err = b.err]
    ELSE [err |-> "Ok", sink |-> st.sink \o b.out, consumed |-> st.consumed + block_size]

\* mutant: a block is emitted only when more than block_size bytes are left
RECURSIVE write_whole_blocks_gt(_, _, _)
write_whole_blocks_gt(wr, input, st) ==
    IF st.err = "Ok" /\ Len(input) - st.consumed > wr.block_size
    THEN write_whole_blocks_gt(wr, input,
             whole_block(st, wr.block_size,
                 write_block_into(wr.mode,
                     Slice(input, st.consumed, st.consumed + wr.block_size))))
    ELSE st

\* `while input.len() - consumed >= self.block_size` of write, st the
\* outcome of the turns before
RECURSIVE write_whole_blocks(_, _, _)
write_whole_blocks(wr, input, st) ==
    IF st.err = "Ok" /\ Len(input) - st.consumed >= wr.block_size
    THEN write_whole_blocks(wr, input,
             whole_block(st, wr.block_size,
                 write_block_into(wr.mode,
                     Slice(input, st.consumed, st.consumed + wr.block_size))))
    ELSE st

\* mutant: the bytes left after the whole blocks are emitted as a block
\* at once instead of being kept in in_buf
keep_rest_emit(wr, snk, input, consumed) ==
    IF consumed < Len(input)
    THEN Wr("Ok", wr, snk \o write_block_into(wr.mode,
                                 Slice(input, consumed, Len(input))).out)
    ELSE Wr("Ok", wr, snk)

\* `if consumed < input.len() { self.in_buf.extend_from_slice(..) }`
keep_rest(wr, snk, input, consumed) ==
    IF consumed < Len(input)
    THEN Wr("Ok", [wr EXCEPT !.in_buf = @ \o Slice(input, consumed, Len(input))], snk)
    ELSE Wr("Ok", wr, snk)

\* LzfWriter::write(buf); Ok is Ok(buf.len())
\* write_block_into(&block, &mut self.inner)?; self.in_buf.clear()
pending_written(wr, snk, b) ==
    IF b.err # "Ok" THEN Wr(b.err, wr, snk)
    ELSE Wr("Ok", [wr EXCEPT !.in_buf = <<>>], snk \o b.out)

\* the whole blocks of input are written, the rest is kept
write_rest(w2, input, blocks) ==
    IF blocks.err # "Ok" THEN Wr(blocks.err, w2, blocks.sink)
    ELSE keep_rest(w2, blocks.sink, input, blocks.consumed)

\* LzfWriter::write(buf) after in_buf was topped up (f); Ok is Ok(buf.len())
write_input(input, f) ==
    IF f.err # "Ok" THEN f
    ELSE write_rest(f.w, input,
             write_whole_blocks(f.w, input,
                 [err |-> "Ok", sink |-> f.sink, consumed |-> 0]))

writer_write(wr, snk, buf) ==
    LET take == IF wr.in_buf # <<>>
                THEN Min(wr.block_size - Len(wr.in_buf), Len(buf)) ELSE 0
        w1 == [wr EXCEPT !.in_buf = @ \o Slice(buf, 0, take)]
        full == wr.in_buf # <<>> /\ Len(w1.in_buf) = wr.block_size
    IN  write_input(Slice(buf, take, Len(buf)),
            IF full
            THEN pending_written(w1, snk, write_block_into(wr.mode, w1.in_buf))
            ELSE Wr("Ok", w1, snk))

\* mutant: the pending block is emitted and in_buf is not cleared
flush_pending_keep(wr, snk) ==
    IF wr.in_buf # <<>>
    THEN [pending_written(wr, snk, write_block_into(wr.mode, wr.in_buf))
              EXCEPT !.w = wr]
    ELSE Wr("Ok", wr, snk)

flush_pending(wr, snk) ==
    IF wr.in_buf # <<>>
    THEN pending_written(wr, snk, write_block_into(wr.mode, wr.in_buf))
    ELSE Wr("Ok", wr, snk)

\* mutant: the terminator is written whatever the option
eof_marker_always(on, f) ==
    IF f.err = "Ok" THEN Wr("Ok", f.w, f.sink \o <<0>>) ELSE f

\* if self.write_eof_marker { self.inner.write_all(&[0])? }
eof_marker(on, f) ==
    IF f.err = "Ok" /\ on THEN Wr("Ok", f.w, f.sink \o <<0>>) ELSE f

\* mutant: finish without flush_pending
writer_finish_marker_only(wr, snk) ==
    eof_marker(wr.write_eof_marker, Wr("Ok", wr, snk))

\* LzfWriter::finish
writer_finish(wr, snk) == eof_marker(wr.write_eof_marker, flush_pending(wr, snk))

\* LzfWriter::flush: flush_pending, then the flush of the sink (a Vec<u8>:
\* nothing to do)
writer_flush(wr, snk) == flush_pending(wr, snk)

---------------------------------------------------------------------------
(* stream.rs: LzfReader over a byte slice (io.rs: impl Read for &[u8]).    *)

\* Vec::resize(n, 0)
Resize(buf, n) == [i \in 1..n |-> IF i <= Len(buf) THEN buf[i] ELSE 0]

\* the first Len(data) bytes of buf overwritten with data
Fill(buf, data) == data \o SubSeq(buf, Len(data) + 1, Len(buf))

\* <&[u8] as Read>::read into a buffer of n bytes: the bytes copied and the
\* slice left
slice_read(inner, n) ==
    LET k == Min(Len(inner), n)
    IN  [data |-> SubSeq(inner, 1, k), inner |-> SubSeq(inner, k + 1, Len(inner))]

\* mutant: a source that ends early is reported as InvalidData
read_exact_invalid(inner, n) ==
    [err |-> IF Len(inner) >= n THEN "Ok" ELSE "InvalidData",
     data |-> SubSeq(inner, 1, Min(Len(inner), n)),
     inner |-> SubSeq(inner, Min(Len(inner), n) + 1, Len(inner))]

\* default_read_exact into a buffer of n bytes over a slice: a first read
\* copies what the slice has, and a read of 0 bytes before the buffer is
\* full is Eof
read_exact(inner, n) ==
    LET rd == slice_read(inner, n)
    IN  [err |-> IF Len(rd.data) = n THEN "Ok" ELSE "Eof",
         data |-> rd.data, inner |-> rd.inner]

\* LzfReader::new
new_reader(inner) ==
    [inner |-> inner, in_buf |-> <<>>, out_buf |-> <<>>, out_pos |-> 0,
     finished |-> FALSE]

\* the result of load_next_block: Ok(loaded) or the error, and the reader
Ld(e, loaded, rd) == [err |-> e, loaded |-> loaded, r |-> rd]

\* the TYPE_UNCOMPRESSED arm of load_next_block, the header read
load_uncompressed(rd, inner, us) ==
    LET payload == read_exact(inner, us)
        r1 == [rd EXCEPT !.inner = payload.inner,
                         !.out_buf = Fill(Resize(rd.out_buf, us), payload.data)]
    IN  IF payload.err # "Ok" THEN Ld(payload.err, FALSE, r1)
        ELSE Ld("Ok", TRUE, [r1 EXCEPT !.out_pos = 0])

\* let written = decompress(&self.in_buf, &mut self.out_buf)?, out_buf the
\* buffer after the call; if written != us { InvalidData }
load_decoded(r1, us, written, out_buf) ==
    IF written.err # "Ok" THEN Ld(written.err, FALSE, [r1 EXCEPT !.out_buf = out_buf])
    ELSE IF Len(written.out) # us
    THEN Ld("InvalidData", FALSE, [r1 EXCEPT !.out_buf = out_buf])
    ELSE Ld("Ok", TRUE, [r1 EXCEPT !.out_buf = out_buf, !.out_pos = 0])

\* the TYPE_COMPRESSED arm of load_next_block, the first five bytes read
load_compressed(rd, inner, cs) ==
    LET us_buf == read_exact(inner, 2)
        us == from_be_bytes(us_buf.data[1], us_buf.data[2])
        payload == read_exact(us_buf.inner, cs)
        r1 == [rd EXCEPT !.inner = payload.inner,
                         !.in_buf = Fill(Resize(rd.in_buf, cs), payload.data)]
    IN  IF us_buf.err # "Ok"
        THEN Ld(us_buf.err, FALSE, [rd EXCEPT !.inner = us_buf.inner])
        ELSE IF payload.err # "Ok" THEN Ld(payload.err, FALSE, r1)
        ELSE load_decoded(r1, us, decompress(r1.in_buf, us),
                 decompress_into(r1.in_buf, Resize(rd.out_buf, us)))

load_next_block(rd) ==
    LET first == slice_read(rd.inner, 1)
        rest == read_exact(first.inner, 4)
        r1 == [rd EXCEPT !.inner = rest.inner]
    IN  IF rd.finished THEN Ld("Ok", FALSE, rd)
        ELSE IF Len(first.data) = 0 \/ first.data[1] = 0
        THEN Ld("Ok", FALSE, [rd EXCEPT !.inner = first.inner, !.finished = TRUE])
        ELSE IF rest.err # "Ok" THEN Ld(rest.err, FALSE, r1)
        ELSE IF first.data[1] # MAGIC_0 \/ rest.data[1] # MAGIC_1
        THEN Ld("InvalidHeader", FALSE, r1)
        ELSE IF rest.data[2] = TYPE_UNCOMPRESSED
        THEN load_uncompressed(r1, rest.inner, from_be_bytes(rest.data[3], rest.data[4]))
        ELSE IF rest.data[2] = TYPE_COMPRESSED
        THEN load_compressed(r1, rest.inner, from_be_bytes(rest.data[3], rest.data[4]))
        ELSE Ld(UnknownBlockType(rest.data[2]), FALSE, r1)

\* the result of read: Ok(Len(buf)) with the bytes put into the caller's
\* buffer, or the error with the bytes that were put there before it
Rd(e, rd, buf) == [err |-> e, r |-> rd, buf |-> buf]

\* mutant: only a block of which nothing was read yet counts as pending
pending_whole(rd) == rd.out_pos = 0 /\ Len(rd.out_buf) > 0

\* `self.out_pos < self.out_buf.len()`: decoded bytes wait to be read
pending(rd) == rd.out_pos < Len(rd.out_buf)

RECURSIVE read_loop(_, _, _)

\* mutant: a stream that has ended is reported as Eof
read_loaded_eof(n, buf, l) ==
    IF l.err # "Ok" THEN Rd(l.err, l.r, buf)
    ELSE IF ~l.loaded THEN Rd("Eof", l.r, buf)
    ELSE read_loop(l.r, n, buf)

\* mutant: the loop is left after every load
read_loaded_break(n, buf, l) ==
    IF l.err # "Ok" THEN Rd(l.err, l.r, buf) ELSE Rd("Ok", l.r, buf)

\* if !self.load_next_block()? { break }
read_loaded(n, buf, l) ==
    IF l.err # "Ok" THEN Rd(l.err, l.r, buf)
    ELSE IF ~l.loaded THEN Rd("Ok", l.r, buf)
    ELSE read_loop(l.r, n, buf)

\* `while written < buf.len()` of read, a buffer of n bytes; buf is
\* buf[..written]
read_loop(rd, n, buf) ==
    IF Len(buf) < n
    THEN IF pending(rd)
         THEN LET avail == Len(rd.out_buf) - rd.out_pos
                  take == Min(n - Len(buf), avail)
              IN  read_loop([rd EXCEPT !.out_pos = @ + take], n,
                            buf \o Slice(rd.out_buf, rd.out_pos, rd.out_pos + take))
         ELSE read_loaded(n, buf,
                  load_next_block([rd EXCEPT !.out_buf = <<>>, !.out_pos = 0]))
    ELSE Rd("Ok", rd, buf)

\* LzfReader::read into a buffer of n bytes
reader_read(rd, n) ==
    IF n = 0 THEN Rd("Ok", rd, <<>>) ELSE read_loop(rd, n, <<>>)

---------------------------------------------------------------------------
(* The inputs the calls are made on.                                       *)

Idle == <<>>

ShortInputs == StringsOf(Alphabet, MaxLen)

Affixes == {<<>>} \cup {<<x>> : x \in Alphabet}

\* runs long enough for a 3-byte back-reference and for the longest match,
\* ramps long enough for a literal run to be split
Fillers ==
    {Run(119, k) : k \in {8, 9, 10, 11, 265, 266, 270}}
        \cup {Ramp(k) : k \in {31, 32, 33, 64, 65}}

LongInputs == {s \o f \o t : s \in Affixes, f \in Fillers, t \in Affixes}

Inputs == ShortInputs \cup LongInputs

---------------------------------------------------------------------------
(* SpecRaw: compress into max_compressed_size bytes, then decompress.      *)

InitRaw ==
    /\ raw \in [input : Inputs, mode : Modes, pc : {"start"},
                comp : {Res("None", <<>>)}, dcmp : {Res("None", <<>>)},
                cap : {0}]
    /\ tok = Idle /\ fr = Idle /\ w = Idle /\ sink = Idle /\ r = Idle /\ env = Idle

\* let mut compressed = vec![0u8; max_compressed_size(input.len())];
\* compress_with_mode(input, &mut compressed, mode)
RawCompress ==
    /\ raw.pc = "start"
    /\ raw' = [raw EXCEPT !.pc = "compressed",
                          !.comp = compress_with_mode(raw.input,
                                       max_compressed_size(Len(raw.input)), raw.mode)]
    /\ UNCHANGED <<tok, fr, w, sink, r, env>>

\* let mut out = vec![0u8; input.len()]; decompress(&compressed, &mut out)
RawDecompress ==
    /\ raw.pc = "compressed"
    /\ raw.comp.err = "Ok"
    /\ raw' = [raw EXCEPT !.pc = "decoded",
                          !.cap = Len(raw.input),
                          !.dcmp = decompress(raw.comp.out, Len(raw.input))]
    /\ UNCHANGED <<tok, fr, w, sink, r, env>>

\* let mut out = vec![0u8; input.len() - 1]; decompress(&compressed, &mut out)
RawDecompressShort ==
    /\ raw.pc = "compressed"
    /\ raw.comp.err = "Ok"
    /\ Len(raw.input) >= 1
    /\ raw' = [raw EXCEPT !.pc = "decoded",
                          !.cap = Len(raw.input) - 1,
                          !.dcmp = decompress(raw.comp.out, Len(raw.input) - 1)]
    /\ UNCHANGED <<tok, fr, w, sink, r, env>>

NextRaw == RawCompress \/ RawDecompress \/ RawDecompressShort

SpecRaw == InitRaw /\ [][NextRaw]_vars

\* C1: raw round trip.  For every input b and both modes, compress into a
\* buffer of max_compressed_size(len(b)) bytes succeeds, and decompress of
\* the token stream into a buffer of len(b) bytes returns len(b) and b.
C1_RawRoundTrip ==
    /\ raw.pc # "start" => raw.comp.err = "Ok"
    /\ raw.pc = "decoded" /\ raw.cap = Len(raw.input)
        => /\ raw.dcmp.err = "Ok"
           /\ Len(raw.dcmp.out) = Len(raw.input)
           /\ raw.dcmp.out = raw.input

\* a best-mode round trip of a long input that was in fact compressed
C1_Witness ==
    /\ raw.pc = "decoded" /\ raw.cap = Len(raw.input)
    /\ raw.mode = "Best"
    /\ Len(raw.input) > MAX_MATCH_LEN
    /\ Len(raw.comp.out) < 10
    /\ raw.dcmp.out = raw.input

\* C4: capacity bound.  With an output buffer of exactly
\* max_compressed_size(n) bytes compress never fails with OutputTooSmall:
\* the token stream is never longer than ((n * 33) >> 5) + 1.
C4_CapacityBound ==
    raw.pc # "start"
        => /\ raw.comp.err # "OutputTooSmall"
           /\ Len(raw.comp.out) <= ((Len(raw.input) * 33) \div 32) + 1

\* an input with a split literal run whose token stream fills the buffer
C4_Witness ==
    /\ raw.pc = "compressed"
    /\ raw.comp.err = "Ok"
    /\ Len(raw.input) > MAX_LITERAL_LEN
    /\ Len(raw.comp.out) = ((Len(raw.input) * 33) \div 32) + 1

\* C6: capacity rejection.  Decompressing the output of compress for an
\* n-byte input (n >= 1) into a buffer of n - 1 bytes fails with
\* OutputTooSmall.
C6_ShortBufferOutputTooSmall ==
    raw.pc = "decoded" /\ raw.cap = Len(raw.input) - 1
        => raw.dcmp.err = "OutputTooSmall"

---------------------------------------------------------------------------
(* SpecDecode: one decompress call on an arbitrary byte sequence, a token  *)
(* per step.                                                               *)

\* longest token stream drawn from every string over TokenBytes
MaxTokLen == 4
\* largest output capacity
MaxCap == 18

\* literal runs of 1 and 2 bytes (0, 1), a 3-byte back-reference (32), an
\* extended back-reference (224), a data byte that is also a back-reference
\* with a large offset (119)
TokenBytes == {0, 1, 32, 224, 119}

\* longer streams: a literal run, then an extended back-reference whose
\* copy of 9 bytes or more overlaps its destination, lies before it, has an
\* offset that is too large, or is longer than any capacity here
LongStreams ==
    {<<0, 119, 224, e, o>> : e \in {0, 1, 255}, o \in {0, 1}}
        \cup {<<1, 119, 122, c, 1, o>> : c \in {224, 255}, o \in {0, 1, 2}}
        \cup {<<8>> \o Run(119, 8) \o <<122, 224, 0, o>> : o \in {0, 7, 8, 9}}
        \cup {<<8>> \o Run(119, 8)}

TokenStreams == StringsOf(TokenBytes, MaxTokLen) \cup LongStreams

InitDecode ==
    /\ tok \in [input : TokenStreams, cap : 0..MaxCap, ip : {0}, tip : {0},
                out : {<<>>}, st : {"run"}]
    /\ raw = Idle /\ fr = Idle /\ w = Idle /\ sink = Idle /\ r = Idle /\ env = Idle

\* one turn of `while ip < input.len()`
DecodeToken ==
    /\ tok.st = "run"
    /\ tok.ip < Len(tok.input)
    /\ \E t \in {decode_token(tok.input, tok.cap, tok.ip, tok.out)} :
           tok' = [tok EXCEPT !.ip = t.ip, !.tip = tok.ip, !.out = t.out,
                              !.st = IF t.err = "Ok" THEN "run" ELSE t.err]
    /\ UNCHANGED <<raw, fr, w, sink, r, env>>

\* the loop is left: Ok(op)
DecodeReturn ==
    /\ tok.st = "run"
    /\ tok.ip >= Len(tok.input)
    /\ tok' = [tok EXCEPT !.st = "Ok"]
    /\ UNCHANGED <<raw, fr, w, sink, r, env>>

NextDecode == DecodeToken \/ DecodeReturn

SpecDecode == InitDecode /\ [][NextDecode]_vars

\* the token at ip is a back-reference, whole in the input, whose offset is
\* not smaller than the number of bytes decoded so far
BadBackrefAt(input, ip, op) ==
    /\ ip < Len(input)
    /\ At(input, ip) >= 32
    /\ backref_fields(input, ip).complete
    /\ backref_fields(input, ip).off >= op

BackrefFitsAt(input, ip, op, cap) == op + backref_fields(input, ip).len + 2 <= cap

\* C5 as stated: decompress fails with InvalidData whenever it meets a
\* back-reference whose offset is >= the number of bytes decoded so far, and
\* [0x20, 0x00] into any non-empty capacity fails with InvalidData.
C5_BadBackrefAlwaysInvalidData ==
    [][/\ tok.st = "run" /\ BadBackrefAt(tok.input, tok.ip, Len(tok.out))
            => tok'.st = "InvalidData"
       /\ tok.st = "run" /\ tok.input = <<32, 0>> /\ tok.cap >= 1
            => tok'.st = "InvalidData"]_vars

\* C5 amended: decompress fails with InvalidData when it meets such a
\* back-reference and the output has room for its copy (op + len <= capacity);
\* without that room the capacity check comes first and it fails with
\* OutputTooSmall.  [0x20, 0x00] fails with InvalidData into a capacity of
\* at least 3 and with OutputTooSmall into a capacity of 1 or 2.
C5_BadBackrefInvalidDataIfRoom ==
    [][/\ tok.st = "run" /\ BadBackrefAt(tok.input, tok.ip, Len(tok.out))
            => tok'.st = IF BackrefFitsAt(tok.input, tok.ip, Len(tok.out), tok.cap)
                         THEN "InvalidData" ELSE "OutputTooSmall"
       /\ tok.st = "run" /\ tok.input = <<32, 0>> /\ tok.cap >= 1
            => tok'.st = IF tok.cap >= 3 THEN "InvalidData" ELSE "OutputTooSmall"]_vars

\* a back-reference met after some output was decoded, with room for its
\* copy, whose offset equals the number of bytes decoded: InvalidData
C5_Witness ==
    /\ tok.st = "InvalidData"
    /\ Len(tok.out) >= 1
    /\ BadBackrefAt(tok.input, tok.tip, Len(tok.out))
    /\ backref_fields(tok.input, tok.tip).off = Len(tok.out)
    /\ BackrefFitsAt(tok.input, tok.tip, Len(tok.out), tok.cap)

---------------------------------------------------------------------------
(* SpecFramed: encode_blocks_with_mode, then decode_blocks, a block per    *)
(* step, on the encoder's output followed by a tail of further bytes.      *)

\* longest input drawn from every string over Alphabet
MaxFramedLen == 3
\* largest block size below u16::MAX
MaxBlockSize == 9

FramedInputs ==
    StringsOf(Alphabet, MaxFramedLen)
        \cup {s \o Run(119, k) \o t : s \in Affixes, k \in {8, 12}, t \in Affixes}

\* 0 and u16::MAX + 1 are rejected by the encoder
BlockSizes == 0..MaxBlockSize \cup {U16_MAX, U16_MAX + 1}

ZV(type) == <<MAGIC_0, MAGIC_1, type>>

\* what follows the encoder's blocks: nothing, a terminator, or a block that
\* is not well formed
Tails ==
    {<<>>, <<0>>,
     \* a terminator followed by bytes that are no block
     <<0, MAGIC_0 - 2>>,
     \* a type-0 block of no bytes, at the end of the input
     ZV(TYPE_UNCOMPRESSED) \o <<0, 0>>,
     \* a type-1 block of no bytes, then a block of one byte
     ZV(TYPE_COMPRESSED) \o <<0, 0, 0, 0>> \o ZV(TYPE_UNCOMPRESSED) \o <<0, 1, 119>>,
     \* type 0, 3 bytes declared, 2 present
     ZV(TYPE_UNCOMPRESSED) \o <<0, 3, 119, 119>>,
     \* type 1, 4 token bytes declared, 3 present
     ZV(TYPE_COMPRESSED) \o <<0, 4, 0, 3, 0, 119, 32>>,
     \* type 1, U = 3, the tokens decode to 1 byte
     ZV(TYPE_COMPRESSED) \o <<0, 2, 0, 3, 0, 119>>,
     \* type 1, U = 1, the tokens are a literal run of 2 bytes
     ZV(TYPE_COMPRESSED) \o <<0, 3, 0, 1, 1, 119, 119>>,
     \* type 1, U = 3, the tokens decode to 1 + 3 bytes, the last 3 copied
     ZV(TYPE_COMPRESSED) \o <<0, 4, 0, 3, 0, 119, 32, 0>>,
     \* type 1, U = 3, the tokens are a back-reference before the output
     ZV(TYPE_COMPRESSED) \o <<0, 2, 0, 3, 32, 0>>,
     \* the input ends inside the header
     <<MAGIC_0, MAGIC_1>>,
     ZV(TYPE_COMPRESSED) \o <<0, 4>>,
     \* wrong magic, in a whole header and in a short one
     <<MAGIC_0, MAGIC_1 + 1, 0, 0, 1, 119>>,
     <<MAGIC_0 + 1, MAGIC_1, 0, 0, 1, 119>>,
     <<MAGIC_0 - 2>>,
     \* type 2
     ZV(2) \o <<0, 1, 119>>,
     \* type 255, the five header bytes and no more; type 2, three bytes
     ZV(255) \o <<0, 0>>,
     ZV(2)}

InitFramed ==
    /\ fr \in [input : FramedInputs, block_size : BlockSizes, mode : Modes,
               pc : {"start"}, enc : {Res("None", <<>>)}, tail : {<<>>},
               stream : {<<>>}, ip : {0}, bip : {0}, out : {<<>>}, st : {"None"}]
    /\ raw = Idle /\ tok = Idle /\ w = Idle /\ sink = Idle /\ r = Idle /\ env = Idle

\* encode_blocks_with_mode(input, block_size, mode)
FramedEncode ==
    /\ fr.pc = "start"
    /\ fr' = [fr EXCEPT !.pc = "encoded",
                        !.enc = encode_blocks_with_mode(fr.input, fr.block_size, fr.mode)]
    /\ UNCHANGED <<raw, tok, w, sink, r, env>>

\* decode_blocks is called on the encoder's output followed by a tail
FramedDecodeCall ==
    /\ fr.pc = "encoded"
    /\ fr.enc.err = "Ok"
    /\ \E tail \in Tails :
          fr' = [fr EXCEPT !.pc = "decoding", !.tail = tail,
                           !.stream = fr.enc.out \o tail]
    /\ UNCHANGED <<raw, tok, w, sink, r, env>>

\* one turn of `while ip < input.len()`
FramedDecodeBlock ==
    /\ fr.pc = "decoding"
    /\ fr.ip < Len(fr.stream)
    /\ \E b \in {decode_block(fr.stream, fr.ip, fr.out)} :
           fr' = [fr EXCEPT !.ip = b.ip, !.bip = fr.ip,
                            !.out = IF b.err = "Ok" THEN b.out ELSE <<>>,
                            !.st = IF b.err = "Ok" /\ ~b.brk THEN "None" ELSE b.err,
                            !.pc = IF b.err = "Ok" /\ ~b.brk THEN "decoding" ELSE "done"]
    /\ UNCHANGED <<raw, tok, w, sink, r, env>>

\* the loop is left at the end of the input: Ok(output)
FramedDecodeReturn ==
    /\ fr.pc = "decoding"
    /\ fr.ip >= Len(fr.stream)
    /\ fr' = [fr EXCEPT !.pc = "done", !.st = "Ok"]
    /\ UNCHANGED <<raw, tok, w, sink, r, env>>

NextFramed ==
    FramedEncode \/ FramedDecodeCall \/ FramedDecodeBlock \/ FramedDecodeReturn

SpecFramed == InitFramed /\ [][NextFramed]_vars

\* C2: framed round trip.  For every input b, every block_size in 1..=65535
\* and both modes, encode_blocks_with_mode succeeds and decode_blocks of its
\* output is Ok(b).
C2_FramedRoundTrip ==
    /\ fr.pc # "start" /\ fr.block_size \in 1..U16_MAX => fr.enc.err = "Ok"
    /\ fr.pc = "done" /\ fr.tail = <<>>
        => /\ fr.st = "Ok"
           /\ fr.out = fr.input
           /\ decode_blocks(fr.enc.out) = Res("Ok", fr.input)

\* a round trip through several blocks, the first of them compressed
C2_Witness ==
    /\ fr.pc = "done" /\ fr.tail = <<>>
    /\ Len(fr.input) > fr.block_size
    /\ At(fr.stream, 2) = TYPE_COMPRESSED
    /\ fr.out = fr.input

\* the block at ip has a whole header of the given type
WholeHeader(s, ip, type) ==
    /\ Len(s) - ip >= (IF type = TYPE_COMPRESSED THEN TYPE1_HDR_SIZE ELSE TYPE0_HDR_SIZE)
    /\ At(s, ip) = MAGIC_0 /\ At(s, ip + 1) = MAGIC_1 /\ At(s, ip + 2) = type

\* the declared payload length of the block at ip exceeds the input left
PayloadShort(s, ip) ==
    \/ /\ WholeHeader(s, ip, TYPE_UNCOMPRESSED)
       /\ Len(s) - (ip + TYPE0_HDR_SIZE) < from_be_bytes(At(s, ip + 3), At(s, ip + 4))
    \/ /\ WholeHeader(s, ip, TYPE_COMPRESSED)
       /\ Len(s) - (ip + TYPE1_HDR_SIZE) < from_be_bytes(At(s, ip + 3), At(s, ip + 4))

\* the tokens of the whole type-1 block at ip, and its declared length U
BlockTokens(s, ip) ==
    Slice(s, ip + TYPE1_HDR_SIZE,
          ip + TYPE1_HDR_SIZE + from_be_bytes(At(s, ip + 3), At(s, ip + 4)))

BlockU(s, ip) == from_be_bytes(At(s, ip + 5), At(s, ip + 6))

\* what the tokens decode to when the output has room for any of them: no
\* token writes more than MAX_MATCH_LEN bytes
Decoded(tokens) == decompress(tokens, Len(tokens) * MAX_MATCH_LEN)

\* the type-1 block at ip is whole and its tokens are well formed but decode
\* to fewer (sign = -1) or to more (sign = 1) bytes than U
LengthMismatch(s, ip, sign) ==
    /\ WholeHeader(s, ip, TYPE_COMPRESSED)
    /\ ~PayloadShort(s, ip)
    /\ Decoded(BlockTokens(s, ip)).err = "Ok"
    /\ IF sign < 0 THEN Len(Decoded(BlockTokens(s, ip)).out) < BlockU(s, ip)
       ELSE Len(Decoded(BlockTokens(s, ip)).out) > BlockU(s, ip)

\* C9 as stated: decode_blocks fails with InvalidData if a block's declared
\* payload length exceeds the remaining input, or if a type-1 block's token
\* stream decodes to fewer or to more bytes than its declared length U.
C9_LengthMismatchInvalidData ==
    [][/\ fr.pc = "decoding" /\ fr.ip < Len(fr.stream)
       /\ \/ PayloadShort(fr.stream, fr.ip)
          \/ LengthMismatch(fr.stream, fr.ip, -1)
          \/ LengthMismatch(fr.stream, fr.ip, 1)
       => fr'.st = "InvalidData"]_vars


\* a block boundary whose first byte is not zero, where fewer bytes remain
\* than the header needs (5, and 7 for type 1) or the magic is not 'Z','V'
BadHeaderAt(s, ip) ==
    /\ ip < Len(s)
    /\ At(s, ip) # 0
    /\ \/ Len(s) - ip < TYPE0_HDR_SIZE
       \/ At(s, ip) # MAGIC_0
       \/ At(s, ip + 1) # MAGIC_1
       \/ At(s, ip + 2) = TYPE_COMPRESSED /\ Len(s) - ip < TYPE1_HDR_SIZE

\* C15: when decode_blocks comes to a block boundary whose first byte is
\* not zero and where fewer bytes remain than the block's header needs or
\* the two magic bytes are not 'Z','V', it fails there with InvalidHeader.
C15_BadHeaderInvalidHeader ==
    [][fr.pc = "decoding" /\ BadHeaderAt(fr.stream, fr.ip)
        => /\ fr'.pc = "done"
           /\ fr'.st = "InvalidHeader"
           /\ decode_blocks(fr.stream) = Res("InvalidHeader", <<>>)]_vars

\* after a whole block, decode_blocks has failed on a type-1 header of 5 or
\* 6 bytes
C15_Witness ==
    /\ fr.pc = "done" /\ fr.st = "InvalidHeader"
    /\ fr.bip > 0
    /\ Len(fr.stream) - fr.bip >= TYPE0_HDR_SIZE
    /\ Len(fr.stream) - fr.bip < TYPE1_HDR_SIZE
    /\ At(fr.stream, fr.bip + 2) = TYPE_COMPRESSED

---------------------------------------------------------------------------
(* Spec: a caller writes b to an LzfWriter in some partition and finishes  *)
(* it; an LzfReader over the sink is then read with buffers of any size.   *)

\* longest input drawn from every string over Alphabet
MaxStreamLen == 2
\* the small read buffers are of 1..MaxRead bytes
MaxRead == 3
\* a read buffer larger than every decoded stream
BigRead == 32

\* short inputs, and runs that give compressed blocks at block sizes from 8
StreamInputs ==
    StringsOf(Alphabet, MaxStreamLen)
        \cup {s \o Run(119, k) \o t :
                s \in {<<>>, <<31>>}, k \in {8, 10}, t \in {<<>>, <<122>>}}

WriterSizes == 1..MaxBlockSize \cup {U16_MAX}

ReadSizes == 1..MaxRead \cup {BigRead}

\* env: the caller.  b is what it writes and pos how much of it is written;
\* calls counts its write calls up to 2 and joined tells that a write found
\* bytes pending; delivered is what its successful reads returned, zero
\* that the last read returned 0, inside that a read ended inside a block.
Init ==
    /\ w \in {new_writer(bs, m, e) : bs \in WriterSizes, m \in Modes, e \in BOOLEAN}
    /\ sink = <<>>
    /\ r = Idle
    /\ env \in [b : StreamInputs, pos : {0}, pc : {"writing"}, calls : {0},
                joined : {FALSE}, delivered : {<<>>}, err : {"None"},
                zero : {FALSE}, inside : {FALSE}]
    /\ raw = Idle /\ tok = Idle /\ fr = Idle

\* writer.write(&b[pos..pos + k])
Write ==
    /\ env.pc = "writing"
    /\ \E k \in 0..(Len(env.b) - env.pos) :
          \E res \in {writer_write(w, sink, Slice(env.b, env.pos, env.pos + k))} :
              /\ w' = res.w
              /\ sink' = res.sink
              /\ env' = [env EXCEPT !.pos = @ + k,
                                    !.calls = Min(@ + 1, 2),
                                    !.joined = @ \/ (w.in_buf # <<>> /\ k > 0),
                                    !.err = res.err]
    /\ UNCHANGED <<raw, tok, fr, r>>

\* writer.finish(), all of b written
Finish ==
    /\ env.pc = "writing"
    /\ env.pos = Len(env.b)
    /\ \E res \in {writer_finish(w, sink)} :
           /\ w' = res.w
           /\ sink' = res.sink
           /\ env' = [env EXCEPT !.pc = "finished", !.err = res.err]
    /\ UNCHANGED <<raw, tok, fr, r>>

\* LzfReader::new(&sink[..]); the write calls are no longer told apart
Open ==
    /\ env.pc = "finished"
    /\ r' = new_reader(sink)
    /\ env' = [env EXCEPT !.pc = "reading", !.calls = 0, !.joined = FALSE]
    /\ UNCHANGED <<raw, tok, fr, w, sink>>

\* reader.read(&mut [0; n])
Read ==
    /\ env.pc = "reading"
    /\ \E n \in ReadSizes :
          \E res \in {reader_read(r, n)} :
              /\ r' = res.r
              /\ env' = [env EXCEPT
                            !.delivered = IF res.err = "Ok" THEN @ \o res.buf ELSE @,
                            !.err = res.err,
                            !.zero = res.err = "Ok" /\ res.buf = <<>>,
                            !.inside = @ \/ res.r.out_pos < Len(res.r.out_buf)]
    /\ UNCHANGED <<raw, tok, fr, w, sink>>

Next == Write \/ Finish \/ Open \/ Read

Spec == Init /\ [][Next]_vars

\* what the sink holds when b is written by one write call and finished
OneShot(wr, b) ==
    LET one == writer_write([wr EXCEPT !.in_buf = <<>>], <<>>, b)
    IN  writer_finish(one.w, one.sink).sink

\* C3: chunking invariance.  For a fixed block_size, mode and terminator
\* setting, writing b through any partition into write calls and finishing
\* puts into the sink the bytes that one write of b and finish put there.
C3_ChunkingInvariance ==
    env.pc = "finished" => env.err = "Ok" /\ sink = OneShot(w, env.b)

\* b was written in several calls, one of which completed a pending block,
\* and the sink starts with a compressed block
C3_Witness ==
    /\ env.pc = "finished"
    /\ env.calls = 2 /\ env.joined
    /\ Len(env.b) > w.block_size
    /\ At(sink, 2) = TYPE_COMPRESSED
    /\ sink = OneShot(w, env.b)

IsPrefix(s, t) == Len(s) <= Len(t) /\ s = SubSeq(t, 1, Len(s))

C10_WriterReaderRoundTrip ==
    env.pc = "reading"
        => /\ env.err = "Ok"
           /\ IsPrefix(env.delivered, env.b)
           /\ env.zero => env.delivered = env.b

\* b, longer than a block, has been delivered through reads that ended
\* inside a block, and the last read returned 0
C10_Witness ==
    /\ env.pc = "reading"
    /\ env.zero /\ env.inside
    /\ Len(env.b) > w.block_size
    /\ w.block_size > 1
    /\ env.delivered = env.b

---------------------------------------------------------------------------
(* SpecReader: an LzfReader over the blocks of an encoder followed by a    *)
(* tail, read with buffers of any size, also after a read has failed.      *)

Prefixes ==
    {encode_blocks_with_mode(b, bs, m).out :
        b \in StreamInputs, bs \in {1, 2, MaxBlockSize}, m \in Modes}

Streams == {p \o t : p \in Prefixes, t \in Tails}

\* env: the caller.  delivered is what the successful reads before the first
\* failing read returned, err the error of that read ("None" before it) and
\* lost what that read had put into its buffer; zero tells that the last
\* read before it returned 0; late is what the reads after it returned.
InitReader ==
    /\ \E s \in Streams :
          /\ r = new_reader(s)
          /\ env = [stream |-> s, delivered |-> <<>>, err |-> "None",
                    lost |-> <<>>, zero |-> FALSE, late |-> <<>>]
    /\ raw = Idle /\ tok = Idle /\ fr = Idle /\ w = Idle /\ sink = Idle

\* reader.read(&mut [0; n]), no read has failed yet
ReaderRead ==
    /\ env.err = "None"
    /\ \E n \in ReadSizes :
          \E res \in {reader_read(r, n)} :
              /\ r' = res.r
              /\ env' = IF res.err = "Ok"
                        THEN [env EXCEPT !.delivered = @ \o res.buf,
                                         !.zero = res.buf = <<>>]
                        ELSE [env EXCEPT !.err = res.err, !.lost = res.buf]
    /\ UNCHANGED <<raw, tok, fr, w, sink>>

\* reader.read(&mut [0; n]) after a read has failed
ReaderReadOn ==
    /\ env.err # "None"
    /\ \E n \in ReadSizes :
          \E res \in {reader_read(r, n)} :
              /\ r' = res.r
              /\ env' = IF res.err = "Ok" THEN [env EXCEPT !.late = @ \o res.buf]
                        ELSE env
    /\ UNCHANGED <<raw, tok, fr, w, sink>>

NextReader == ReaderRead \/ ReaderReadOn

SpecReader == InitReader /\ [][NextReader]_vars

\* the errors of the container format
FrameErrors ==
    {"InvalidHeader", "InvalidData"} \cup {UnknownBlockType(t) : t \in 2..255}

\* where decode_blocks ends on the reader's bytes
Decode == decode_loop(env.stream, Blk("Ok", 0, <<>>, FALSE))

\* the input ends inside the block at ip: inside its first five bytes, inside
\* the header of a type-1 block, or inside its payload
Truncated(s, ip) ==
    \/ Len(s) - ip < TYPE0_HDR_SIZE
    \/ /\ At(s, ip) = MAGIC_0 /\ At(s, ip + 1) = MAGIC_1
       /\ At(s, ip + 2) = TYPE_COMPRESSED
       /\ Len(s) - ip < TYPE1_HDR_SIZE
    \/ PayloadShort(s, ip)

\* C7 as stated: on bytes on which decode_blocks fails with InvalidHeader,
\* InvalidData or UnknownBlockType(t), a reader read until it fails fails
\* with the same error, when it reaches the malformed block.
C7_ReaderSameErrorAsDecode ==
    Decode.err \in FrameErrors
        => /\ ~env.zero
           /\ env.err # "None"
                => /\ env.err = Decode.err
                   /\ env.delivered \o env.lost = Decode.out

\* C7 amended: on such bytes the reader does not end cleanly; it fails when
\* it reaches the malformed block, with Eof if the input ends inside that
\* block's header or payload and with the error of decode_blocks otherwise.
C7_ReaderSameErrorUnlessTruncated ==
    Decode.err \in FrameErrors
        => /\ ~env.zero
           /\ env.err # "None"
                => /\ env.err = IF Truncated(env.stream, Decode.ip) THEN "Eof"
                                ELSE Decode.err
                   /\ env.delivered \o env.lost = Decode.out

\* after some valid blocks were delivered, the reader has failed with Eof on
\* a block whose payload is cut short, where decode_blocks gives InvalidData
C7_Witness ==
    /\ env.err = "Eof"
    /\ Decode.err = "InvalidData"
    /\ env.delivered # <<>>
    /\ PayloadShort(env.stream, Decode.ip)

\* C8 as stated: when a reader fails on a malformed block, what the
\* successful reads before the failing one returned is the content of all
\* blocks before the malformed one, for any read sizes.
C8_DeliveredBeforeError ==
    env.err # "None" => env.delivered = Decode.out

\* the reader's bytes end with a zero byte after a well-formed stream
EndsWithTerminator(s) ==
    /\ Len(s) > 0
    /\ s[Len(s)] = 0
    /\ decode_blocks(SubSeq(s, 1, Len(s) - 1)).err = "Ok"

\* C11: terminator handling.  For a well-formed stream s (decode_blocks(s)
\* is Ok), decode_blocks(s ++ [0]) equals decode_blocks(s); a reader over a
\* well-formed stream, with or without the zero byte, never fails, delivers
\* the bytes decode_blocks gives, and has delivered all of them when it
\* returns 0 and when it has met the end of the stream.
C11_TerminatorStopsCleanly ==
    /\ EndsWithTerminator(env.stream)
        => decode_blocks(env.stream)
             = decode_blocks(SubSeq(env.stream, 1, Len(env.stream) - 1))
    /\ decode_blocks(env.stream).err = "Ok"
        => /\ env.err = "None"
           /\ IsPrefix(env.delivered, decode_blocks(env.stream).out)
           /\ env.zero \/ r.finished
                => env.delivered = decode_blocks(env.stream).out

\* a reader over blocks followed by a zero byte has delivered the blocks'
\* content and returned 0, the zero byte consumed
C11_Witness ==
    /\ EndsWithTerminator(env.stream)
    /\ env.zero /\ r.finished /\ r.inner = <<>>
    /\ env.delivered # <<>>
    /\ env.delivered = decode_blocks(env.stream).out

\* no decoded bytes wait in the reader and its source is at a zero byte or
\* at its end, or the reader has met one of them before
AtEnd(rd) ==
    /\ ~pending(rd)
    /\ rd.finished \/ rd.inner = <<>> \/ rd.inner[1] = 0

\* no decoded bytes wait in the reader and what is left of its source holds
\* nothing but blocks of no bytes before a zero byte or its end, or the
\* reader has met one of them before
NothingAhead(rd) ==
    /\ ~pending(rd)
    /\ \/ rd.finished
       \/ decode_blocks(rd.inner) = Res("Ok", <<>>)

\* C13 as stated: a read into a non-empty buffer returns 0 without error
\* exactly when no decoded bytes wait and the source is at a zero byte or at
\* its end; after that the reads return 0 and the source is not read.
C13_ZeroExactlyAtEnd ==
    [][env.err = "None"
        => /\ (env'.err = "None" /\ env'.zero) <=> AtEnd(r)
           /\ r.finished => r'.inner = r.inner]_vars

\* C13 amended: a read into a non-empty buffer returns 0 without error
\* exactly when no decoded bytes wait and the source holds only blocks of no
\* bytes (if any) before a zero byte or its end; the reader is then at its
\* end for good: every later read returns 0 and leaves the source alone.
C13_ZeroExactlyWhenNothingAhead ==
    [][env.err = "None"
        => /\ (env'.err = "None" /\ env'.zero) <=> NothingAhead(r)
           /\ env'.err = "None" /\ env'.zero => r'.finished
           /\ r.finished => r'.inner = r.inner /\ r'.finished]_vars

\* a reader that delivered a block has returned 0 at a zero byte, with
\* bytes left in the source after that byte
C13_Witness ==
    /\ env.err = "None" /\ env.zero
    /\ env.delivered # <<>>
    /\ r.finished /\ r.inner # <<>>

\* the type byte of the block at which decode_blocks ends
TypeAtEnd == At(env.stream, Decode.ip + 2)

\* decode_blocks has come to five bytes with the magic and a type byte
\* other than 0 and 1
UnknownTypeReached ==
    /\ Len(env.stream) - Decode.ip >= TYPE0_HDR_SIZE
    /\ TypeAtEnd \notin {TYPE_UNCOMPRESSED, TYPE_COMPRESSED}
    /\ WholeHeader(env.stream, Decode.ip, TypeAtEnd)

\* C14: a block with the magic and a type byte t other than 0 and 1 (its
\* five header bytes present) makes decode_blocks fail with
\* UnknownBlockType(t), t the type byte; a reader over the same bytes does
\* not end cleanly and, when it fails, fails with that error, after it has
\* taken the content of the blocks before out of its source.
C14_UnknownBlockTypeCarriesByte ==
    UnknownTypeReached
        => /\ Decode.err = "UnknownBlockType(" \o ToString(TypeAtEnd) \o ")"
           /\ decode_blocks(env.stream) = Res(Decode.err, <<>>)
           /\ ~env.zero
           /\ env.err # "None"
                => /\ env.err = Decode.err
                   /\ env.delivered \o env.lost = Decode.out

\* after delivering a block, a reader has failed on a header of type 255
C14_Witness ==
    /\ UnknownTypeReached
    /\ TypeAtEnd = 255
    /\ env.err = "UnknownBlockType(255)"
    /\ env.delivered # <<>>

---------------------------------------------------------------------------
(* SpecParams: the encoder entry points and the writer's constructors,     *)
(* called with a block_size that may be out of range.                      *)

\* encode_blocks and encode_blocks_with_mode
Encoders == {"encode_blocks", "encode_blocks_with_mode"}

\* the constructors of LzfWriter
Constructors ==
    {"new", "new_with_mode", "new_with_eof_marker", "new_with_eof_marker_and_mode"}

\* the entry points without a mode use CompressionMode::Normal
ModeOf(call, mode) ==
    IF call \in {"encode_blocks", "new", "new_with_eof_marker"} THEN "Normal" ELSE mode

\* env: the arguments, and the entry points called so far
InitParams ==
    /\ env \in [input : StringsOf(Alphabet, MaxStreamLen) \cup {Run(119, 10)},
                block_size : BlockSizes, mode : Modes,
                encoder : {"None"}, constructor : {"None"}]
    /\ fr = Idle /\ w = Idle /\ sink = <<>>
    /\ raw = Idle /\ tok = Idle /\ r = Idle

\* encode_blocks(input, block_size) or encode_blocks_with_mode(.., mode)
ParamsEncode ==
    /\ env.encoder = "None"
    /\ \E call \in Encoders :
          /\ fr' = encode_blocks_with_mode(env.input, env.block_size,
                                           ModeOf(call, env.mode))
          /\ env' = [env EXCEPT !.encoder = call]
    /\ UNCHANGED <<raw, tok, w, sink, r>>

\* LzfWriter::new*(sink, block_size, ..)
ParamsConstruct ==
    /\ env.constructor = "None"
    /\ \E call \in Constructors :
          /\ w' = new_writer(env.block_size, ModeOf(call, env.mode),
                             call \in {"new_with_eof_marker",
                                       "new_with_eof_marker_and_mode"})
          /\ env' = [env EXCEPT !.constructor = call]
    /\ UNCHANGED <<raw, tok, fr, sink, r>>

NextParams == ParamsEncode \/ ParamsConstruct

SpecParams == InitParams /\ [][NextParams]_vars

\* C16: block-size validation.  With block_size 0 or above 65535 the two
\* encoders fail with InvalidParameter and no output, and the four
\* constructors fail with InvalidParameter with nothing written to the
\* sink, whatever the input; with block_size in 1..=65535 the encoders
\* succeed and the constructors give a writer of that block_size with
\* nothing pending.
C16_BlockSizeValidated ==
    /\ env.encoder # "None"
        => IF env.block_size = 0 \/ env.block_size > 65535
           THEN fr = Res("InvalidParameter", <<>>)
           ELSE fr.err = "Ok"
    /\ env.constructor # "None"
        => /\ sink = <<>>
           /\ IF env.block_size = 0 \/ env.block_size > 65535
              THEN w.err = "InvalidParameter"
              ELSE /\ w.err = "Ok"
                   /\ w.block_size = env.block_size
                   /\ w.in_buf = <<>>
                   /\ w.write_eof_marker
                        <=> env.constructor \in {"new_with_eof_marker",
                                                 "new_with_eof_marker_and_mode"}

\* block_size 0 and an empty input: encode_blocks and new are both refused
C16_Witness ==
    /\ env.block_size = 0 /\ env.input = <<>>
    /\ env.encoder = "encode_blocks" /\ fr.err = "InvalidParameter"
    /\ env.constructor = "new" /\ w.err = "InvalidParameter"

---------------------------------------------------------------------------
(* SpecAuto: a writer wrapped by auto_finish, written and flushed through  *)
(* the wrapper and dropped at any point, without a call of finish.         *)

\* the calls of flush in one behaviour
MaxFlush == 1

\* env as in Spec; slot is the wrapper's Option, finishes counts the calls
\* of finish, flushes those of flush, flushed tells that flush was called
\* with bytes pending
InitAuto ==
    /\ w \in {new_writer(bs, m, e) : bs \in WriterSizes, m \in Modes, e \in BOOLEAN}
    /\ sink = <<>>
    /\ r = Idle
    /\ env \in [b : StreamInputs, pos : {0}, pc : {"writing"}, calls : {0},
                joined : {FALSE}, err : {"None"}, slot : {"Some"},
                finishes : {0}, flushes : {0}, flushed : {FALSE}]
    /\ raw = Idle /\ tok = Idle /\ fr = Idle

\* AutoFinisher::flush: the writer's flush
AutoFlush ==
    /\ env.pc = "writing"
    /\ env.flushes < MaxFlush
    /\ \E res \in {writer_flush(w, sink)} :
           /\ w' = res.w
           /\ sink' = res.sink
           /\ env' = [env EXCEPT !.err = res.err, !.flushes = @ + 1,
                                 !.flushed = @ \/ w.in_buf # <<>>]
    /\ UNCHANGED <<raw, tok, fr, r>>

\* Drop for AutoFinisher: if let Some(inner) = self.0.take() {
\* inner.finish_ignore_error() }, the result of finish dropped
AutoDrop ==
    /\ env.pc = "writing"
    /\ \E res \in {IF env.slot = "Some" THEN writer_finish(w, sink)
                   ELSE Wr("Ok", w, sink)} :
           /\ w' = res.w
           /\ sink' = res.sink
           /\ env' = [env EXCEPT !.pc = "dropped", !.slot = "None",
                                 !.finishes = IF env.slot = "Some" THEN @ + 1 ELSE @]
    /\ UNCHANGED <<raw, tok, fr, r>>

NextAuto == Write \/ AutoFlush \/ AutoDrop

SpecAuto == InitAuto /\ [][NextAuto]_vars

\* C17: auto-finish.  When the wrapper is dropped, after any writes and
\* flushes through it, finish has run exactly once, and the sink holds a
\* framed stream, with its terminator if the writer has the option, that
\* decodes to the bytes written through the wrapper.
C17_DropFinishesOnce ==
    /\ env.err = "None" \/ env.err = "Ok"
    /\ env.pc = "dropped"
        => /\ env.finishes = 1
           /\ env.slot = "None"
           /\ decode_blocks(sink) = Res("Ok", Slice(env.b, 0, env.pos))
           /\ w.write_eof_marker => sink # <<>> /\ sink[Len(sink)] = 0

\* the wrapper was dropped before all of b was written, after a flush, with
\* bytes pending that finish had to emit
C17_Witness ==
    /\ env.pc = "dropped"
    /\ env.flushed
    /\ 0 < env.pos /\ env.pos < Len(env.b)
    /\ env.pos % w.block_size # 0
    /\ decode_blocks(sink) = Res("Ok", Slice(env.b, 0, env.pos))

---------------------------------------------------------------------------
(* SpecIo: io.rs, default_read_exact and default_write_all over a source   *)
(* or a sink that answers each call with a count, Interrupted or another   *)
(* error.                                                                   *)

\* the buffer of a call holds at most this many bytes
MaxIoLen == 3

\* the answers Interrupted in one call
MaxInterrupts == 2

\* the errors of a source or a sink other than Interrupted
IoErrors == {"Eof", "WriteZero", "InvalidData"}

\* the answers of one read or write with want bytes asked and avail bytes
\* at hand
IoAnswers(want, avail, intr) ==
    {[err |-> "Ok", n |-> k] : k \in 0..Min(want, avail)}
        \cup {[err |-> e, n |-> 0] : e \in IoErrors}
        \cup (IF intr < MaxInterrupts THEN {[err |-> "Interrupted", n |-> 0]} ELSE {})

\* mutant: Interrupted is returned as any other error
default_read_exact_surface(io, o) ==
    IF o.err = "Ok" /\ o.n = 0
    THEN [io EXCEPT !.pc = "done", !.last = o,
                    !.res = IF Len(io.got) = io.want THEN "Ok" ELSE "Eof"]
    ELSE IF o.err = "Ok"
    THEN [io EXCEPT !.last = o,
                    !.got = @ \o Slice(io.data, Len(io.got), Len(io.got) + o.n)]
    ELSE [io EXCEPT !.pc = "done", !.last = o, !.res = o.err]

\* default_read_exact, one turn of the loop with the answer o of this.read:
\* Ok(0) breaks, and the check after the loop gives Ok or Eof; Ok(n) moves
\* on in the buffer; Interrupted does nothing; another error is returned
default_read_exact(io, o) ==
    IF o.err = "Ok" /\ o.n = 0
    THEN [io EXCEPT !.pc = "done", !.last = o,
                    !.res = IF Len(io.got) = io.want THEN "Ok" ELSE "Eof"]
    ELSE IF o.err = "Ok"
    THEN [io EXCEPT !.last = o,
                    !.got = @ \o Slice(io.data, Len(io.got), Len(io.got) + o.n)]
    ELSE IF o.err = "Interrupted"
    THEN [io EXCEPT !.last = o, !.intr = @ + 1]
    ELSE [io EXCEPT !.pc = "done", !.last = o, !.res = o.err]

\* default_write_all, one turn of the loop with the answer o of this.write:
\* Ok(0) returns WriteZero; Ok(n) moves on in the input; Interrupted does
\* nothing; another error is returned
default_write_all(io, o) ==
    IF o.err = "Ok" /\ o.n = 0
    THEN [io EXCEPT !.pc = "done", !.last = o, !.res = "WriteZero"]
    ELSE IF o.err = "Ok"
    THEN [io EXCEPT !.last = o,
                    !.got = @ \o Slice(io.data, Len(io.got), Len(io.got) + o.n)]
    ELSE IF o.err = "Interrupted"
    THEN [io EXCEPT !.last = o, !.intr = @ + 1]
    ELSE [io EXCEPT !.pc = "done", !.last = o, !.res = o.err]

\* a call of read_exact with a buffer of want bytes over a source holding
\* data, or of write_all with the want bytes of data; got is the part of the
\* buffer filled, or the bytes the sink took; last is the last answer
InitIo ==
    /\ env \in {[op |-> op, data |-> d, want |-> n, got |-> <<>>, pc |-> "loop",
                 res |-> "None", intr |-> 0, last |-> [err |-> "None", n |-> 0]] :
                   op \in {"read_exact", "write_all"},
                   d \in StringsOf(Alphabet, MaxIoLen), n \in 0..MaxIoLen}
    /\ env.op = "write_all" => env.want = Len(env.data)
    /\ raw = Idle /\ tok = Idle /\ fr = Idle /\ w = Idle /\ sink = <<>> /\ r = Idle

\* while !buf.is_empty() { match this.read(buf) .. }
\* if buf.is_empty() { Ok(()) } else { Err(Error::Eof) }
ReadExact ==
    /\ env.op = "read_exact" /\ env.pc = "loop"
    /\ IF Len(env.got) = env.want
       THEN env' = [env EXCEPT !.pc = "done", !.res = "Ok"]
       ELSE \E o \in IoAnswers(env.want - Len(env.got),
                               Len(env.data) - Len(env.got), env.intr) :
                env' = default_read_exact(env, o)
    /\ UNCHANGED <<raw, tok, fr, w, sink, r>>

\* while !buf.is_empty() { match this.write(buf) .. }  Ok(())
WriteAll ==
    /\ env.op = "write_all" /\ env.pc = "loop"
    /\ IF Len(env.got) = env.want
       THEN env' = [env EXCEPT !.pc = "done", !.res = "Ok"]
       ELSE \E o \in IoAnswers(env.want - Len(env.got),
                               env.want - Len(env.got), env.intr) :
                env' = default_write_all(env, o)
    /\ UNCHANGED <<raw, tok, fr, w, sink, r>>

NextIo == ReadExact \/ WriteAll

SpecIo == InitIo /\ [][NextIo]_vars

\* C18: the exact-read and write-all helpers never return Interrupted.  An
\* answer Interrupted leaves the call in its loop with the buffer as it was;
\* read_exact returns Ok only with the whole buffer filled from the source,
\* Eof when the source answered 0 bytes before that, and any other error of
\* the source as it is; write_all returns Ok only with every byte taken,
\* WriteZero when the sink took 0 bytes before that, and any other error of
\* the sink as it is.
C18_InterruptedRetried ==
    /\ env.last.err = "Interrupted" => env.pc = "loop" /\ env.res = "None"
    /\ env.pc = "done" =>
        /\ env.res # "Interrupted"
        /\ env.res = "Ok" <=> Len(env.got) = env.want
        /\ env.res = "Ok" => env.got = Slice(env.data, 0, env.want)
        /\ env.res # "Ok" =>
             IF env.last.err = "Ok"
             THEN /\ env.last.n = 0
                  /\ env.res = IF env.op = "read_exact" THEN "Eof" ELSE "WriteZero"
             ELSE env.res = env.last.err /\ env.last.err \in IoErrors

\* a call that was interrupted twice, went on, and returned Ok with all its
\* bytes moved
C18_Witness ==
    /\ env.pc = "done" /\ env.res = "Ok"
    /\ env.intr = MaxInterrupts
    /\ env.want = MaxIoLen
    /\ env.got = env.data

---------------------------------------------------------------------------
(* decompress: the bounds of its reads and writes                          *)

\* the positions of the output that the copy of the back-reference of
\* fields f reads, in the order of the copy: the i-th is read when
\* op + i bytes of the output are written
backref_sources(op, f) == [i \in 0..(f.len + 1) |-> op - f.off - 1 + i]

\* the last token decoded is a back-reference, whole in the input
LastIsBackref ==
    /\ tok.tip < Len(tok.input)
    /\ At(tok.input, tok.tip) >= 32
    /\ backref_fields(tok.input, tok.tip).complete

\* C19: decoder bounds safety.  For every input and capacity here, every
\* turn of the loop of decompress moves ip forward and never past the end of
\* the input (the bytes it reads are those from the old ip up to the new
\* one), keeps what was written and never writes past the capacity, copies
\* a back-reference only from positions written before, and ends in no
\* other way than by going on, InvalidData or OutputTooSmall; the call
\* returns Ok(n) with n <= capacity once ip has reached the end.
C19_DecoderBoundsSafe ==
    [][/\ tok.st = "run" /\ tok.ip < Len(tok.input) =>
            /\ tok'.st \in {"run", "InvalidData", "OutputTooSmall"}
            /\ tok.ip < tok'.ip /\ tok'.ip <= Len(tok.input)
            /\ IsPrefix(tok.out, tok'.out)
            /\ Len(tok'.out) <= tok.cap
            /\ tok'.st = "run" /\ At(tok.input, tok.ip) >= 32 =>
                 LET f == backref_fields(tok.input, tok.ip)
                     op == Len(tok.out)
                     src == backref_sources(op, f)
                 IN  /\ Len(tok'.out) = op + f.len + 2
                     /\ \A i \in DOMAIN src : 0 <= src[i] /\ src[i] < op + i
       /\ tok.st = "run" /\ tok.ip >= Len(tok.input) =>
            /\ tok'.st = "Ok"
            /\ tok'.out = tok.out
            /\ Len(tok'.out) <= tok.cap]_vars

\* a call that returned Ok with the output filled to its capacity, whose
\* last token is a back-reference of 9 bytes or more that reads bytes of its
\* own copy
C19_Witness ==
    /\ tok.st = "Ok"
    /\ Len(tok.out) = tok.cap
    /\ LastIsBackref
    /\ backref_fields(tok.input, tok.tip).len + 2 > 8
    /\ backref_fields(tok.input, tok.tip).off < backref_fields(tok.input, tok.tip).len

---------------------------------------------------------------------------
(* SpecVec: one call of decompress_into_vec on an arbitrary byte sequence. *)

\* let written = decompress(input, &mut output)?;
\* if written != output_len { return Err(Error::InvalidData) }  Ok(output)
checked_len(res, output_len) ==
    IF res.err # "Ok" THEN Res(res.err, <<>>)
    ELSE IF Len(res.out) # output_len THEN Res("InvalidData", <<>>)
    ELSE res

\* decompress_into_vec
decompress_into_vec(input, output_len) ==
    checked_len(decompress(input, output_len), output_len)

\* a capacity that no token stream of the length of input can exceed: a
\* token of two bytes gives at most MAX_MATCH_LEN bytes
AmpleCap(input) == Len(input) * MAX_MATCH_LEN

InitVec ==
    /\ tok \in [input : TokenStreams, output_len : 0..MaxCap, st : {"call"},
                res : {Res("None", <<>>)}, full : {Res("None", <<>>)}]
    /\ raw = Idle /\ fr = Idle /\ w = Idle /\ sink = Idle /\ r = Idle /\ env = Idle

\* the call; full is what the same tokens decode to with room for all of it
IntoVec ==
    /\ tok.st = "call"
    /\ tok' = [tok EXCEPT !.st = "returned",
                          !.res = decompress_into_vec(tok.input, tok.output_len),
                          !.full = decompress(tok.input, AmpleCap(tok.input))]
    /\ UNCHANGED <<raw, fr, w, sink, r, env>>

NextVec == IntoVec

SpecVec == InitVec /\ [][NextVec]_vars

\* C20: decompress_into_vec(input, output_len) returns InvalidData whenever
\* the token stream decodes to a length different from output_len, be it
\* fewer bytes or more.
C20_LengthMismatchIsInvalidData ==
    (/\ tok.st = "returned"
     /\ tok.full.err = "Ok"
     /\ Len(tok.full.out) # tok.output_len)
        => tok.res.err = "InvalidData"

\* C21: overlap semantics of the decoder.  For every back-reference that
\* decompress accepts at output position op, the bytes written are those of
\* the copy made a byte at a time from left to right, whichever of the three
\* copy paths is taken: out[op + i] = out[op - offset - 1 + i] for every i
\* below the copy length, the bytes before op unchanged.
C21_OverlapLeftToRight ==
    [][(/\ tok.st = "run" /\ tok.ip < Len(tok.input)
        /\ At(tok.input, tok.ip) >= 32
        /\ tok'.st = "run") =>
            LET f == backref_fields(tok.input, tok.ip)
                op == Len(tok.out)
                ref_pos == op - f.off - 1
                copy_len == f.len + 2
            IN  /\ Len(tok'.out) = op + copy_len
                /\ SubSeq(tok'.out, 1, op) = tok.out
                /\ \A i \in 0..(copy_len - 1) :
                       At(tok'.out, op + i) = At(tok'.out, ref_pos + i)
                /\ tok'.out = copy_bytes(tok.out, ref_pos, copy_len)]_vars

\* a back-reference of 9 bytes or more at offset 1, after two different
\* bytes: the copy reads its own bytes and repeats the pattern of two
C21_Witness ==
    /\ tok.st = "Ok"
    /\ LastIsBackref
    /\ backref_fields(tok.input, tok.tip).len + 2 > 8
    /\ backref_fields(tok.input, tok.tip).off = 1
    /\ Len(tok.out) = backref_fields(tok.input, tok.tip).len + 4
    /\ At(tok.out, 0) # At(tok.out, 1)
    /\ \A i \in 2..(Len(tok.out) - 1) : At(tok.out, i) = At(tok.out, i - 2)

---------------------------------------------------------------------------
(* the blocks of the encoder against the chunks of its input               *)

\* the chunk of the input that the block decoded next holds: the bytes
\* decoded so far are the chunks before it
ChunkAt(input, block_size, at) == Slice(input, at, Min(at + block_size, Len(input)))

\* the tokens of the raw encoder for a chunk, with room for any output
FullTokens(chunk, mode) == compress_with_mode(chunk, max_compressed_size(Len(chunk)), mode)

\* C22: raw fallback per block.  For each chunk of length L of the input of
\* encode_blocks_with_mode, the block emitted is of type 1, holding the
\* tokens of the raw encoder, exactly when these tokens take at most L - 4
\* bytes, and otherwise of type 0, holding the chunk itself; so a type-1
\* block has C <= U - 4, a chunk of at most 4 bytes gives a type-0 block, and
\* 1 <= U <= block_size.  The writer's write_block_into emits the same block.
C22_RawFallbackPerBlock ==
    [][(fr.pc = "decoding" /\ fr.ip < Len(fr.enc.out)) =>
          LET chunk == ChunkAt(fr.input, fr.block_size, Len(fr.out))
              L == Len(chunk)
              full == FullTokens(chunk, fr.mode)
              s == fr.stream
              type == At(s, fr.ip + 2)
              U == IF type = TYPE_COMPRESSED THEN BlockU(s, fr.ip)
                   ELSE from_be_bytes(At(s, fr.ip + 3), At(s, fr.ip + 4))
          IN  /\ full.err = "Ok"
              /\ WholeHeader(s, fr.ip, type)
              /\ type \in {TYPE_UNCOMPRESSED, TYPE_COMPRESSED}
              /\ type = TYPE_COMPRESSED <=> Len(full.out) <= L - 4
              /\ type = TYPE_COMPRESSED =>
                    /\ BlockTokens(s, fr.ip) = full.out
                    /\ Len(BlockTokens(s, fr.ip)) <= U - 4
                    /\ fr'.ip = fr.ip + TYPE1_HDR_SIZE + Len(full.out)
              /\ type = TYPE_UNCOMPRESSED =>
                    /\ Slice(s, fr.ip + TYPE0_HDR_SIZE, fr.ip + TYPE0_HDR_SIZE + U) = chunk
                    /\ fr'.ip = fr.ip + TYPE0_HDR_SIZE + L
              /\ L <= 4 => type = TYPE_UNCOMPRESSED
              /\ U = L /\ 1 <= U /\ U <= fr.block_size
              /\ fr'.out = fr.out \o chunk
              /\ write_block_into(fr.mode, chunk)
                    = Res("Ok", Slice(s, fr.ip, fr'.ip))]_vars

\* an input of several chunks was decoded: its first block is of type 1 and
\* its last, a chunk of more than 4 bytes whose tokens save fewer than 4
\* bytes, of type 0
C22_Witness ==
    /\ fr.pc = "done" /\ fr.tail = <<>> /\ fr.st = "Ok"
    /\ Len(fr.input) > fr.block_size
    /\ At(fr.stream, 2) = TYPE_COMPRESSED
    /\ At(fr.stream, fr.bip + 2) = TYPE_UNCOMPRESSED
    /\ Len(fr.stream) - fr.bip - TYPE0_HDR_SIZE > 4

\* C23: the writer's accumulation.  After any sequence of write calls (the
\* sink takes every byte) each call has succeeded and taken its whole
\* argument: the bytes written so far are those of the blocks in the sink
\* followed by the pending bytes.  The pending bytes are fewer than
\* block_size, and the sink holds the blocks of the bytes before them, each
\* of exactly block_size bytes in the order written.
C23_WriterAccumulates ==
    env.pc = "writing" =>
        LET n == env.pos - Len(w.in_buf)
        IN  /\ env.err \in {"None", "Ok"}
            /\ Len(w.in_buf) <= w.block_size - 1
            /\ n >= 0 /\ n % w.block_size = 0
            /\ w.in_buf = Slice(env.b, n, env.pos)
            /\ sink = encode_blocks_with_mode(Slice(env.b, 0, n), w.block_size, w.mode).out
            /\ decode_blocks(sink) = Res("Ok", Slice(env.b, 0, n))

\* several write calls, one of which completed a pending block: two blocks
\* or more are in the sink and bytes are pending
C23_Witness ==
    /\ env.pc = "writing"
    /\ env.calls = 2 /\ env.joined
    /\ w.in_buf # <<>>
    /\ env.pos > 2 * w.block_size
    /\ w.block_size > 1
    /\ sink # <<>>

---------------------------------------------------------------------------
(* the token streams of compress                                           *)

\* the tokens of s from ip on, op bytes of input being encoded before them:
\* each literal run holds 1..=32 bytes, all in s, which are those of input
\* at op; each back-reference is whole, of 3..=264 bytes at an offset of
\* 0..=8191 smaller than op, and the bytes of input at op are those at
\* op - off - 1 (a match of its whole length); the tokens end where s ends
RECURSIVE tokens_ok(_, _, _, _)
tokens_ok(s, input, ip, op) ==
    IF ip >= Len(s) THEN ip = Len(s) /\ op = Len(input)
    ELSE IF At(s, ip) < 32
    THEN LET run == At(s, ip) + 1
         IN  /\ 1 <= run /\ run <= MAX_LITERAL_LEN
             /\ ip + 1 + run <= Len(s)
             /\ op + run <= Len(input)
             /\ Slice(s, ip + 1, ip + 1 + run) = Slice(input, op, op + run)
             /\ tokens_ok(s, input, ip + 1 + run, op + run)
    ELSE LET f == backref_fields(s, ip)
             len == f.len + 2
         IN  /\ f.complete
             /\ 3 <= len /\ len <= MAX_MATCH_LEN
             /\ 0 <= f.off /\ f.off <= MAX_OFFSET - 1
             /\ f.off < op
             /\ op + len <= Len(input)
             /\ \A i \in 0..(len - 1) :
                    At(input, op + i) = At(input, op - f.off - 1 + i)
             /\ tokens_ok(s, input, f.ip, op + len)

\* C24: every token stream that compress produces, in either mode, is well
\* formed: literal runs of 1..=32 bytes, back-references of 3..=264 bytes at
\* offsets of 0..=8191 that are smaller than the number of bytes the tokens
\* before them decode to, each of them a match of its whole length in the
\* input, so of 3 bytes at least.
C24_TokensWellFormed ==
    raw.pc # "start" =>
        /\ raw.comp.err = "Ok"
        /\ tokens_ok(raw.comp.out, raw.input, 0, 0)

\* a well-formed stream of an input of more than 265 bytes that holds a
\* back-reference of the longest length, 264 bytes, at offset 0
C24_Witness ==
    /\ raw.pc = "compressed"
    /\ tokens_ok(raw.comp.out, raw.input, 0, 0)
    /\ Len(raw.input) > MAX_MATCH_LEN + 1
    /\ \E ip \in 0..(Len(raw.comp.out) - 3) :
           /\ At(raw.comp.out, ip) = 224
           /\ At(raw.comp.out, ip + 1) = 255
           /\ At(raw.comp.out, ip + 2) = 0

---------------------------------------------------------------------------
(* SpecEnc: compress_normal and compress_best_impl, a turn of the main     *)
(* loop per step, into a buffer of max_compressed_size bytes.              *)

\* a three-byte pattern three times, each time before another byte: the
\* chain of the third holds two candidates
TieInputs ==
    {<<31, 119, 122, x, 31, 119, 122, y, 31, 119, 122, z>> :
        x \in Alphabet, y \in Alphabet, z \in Alphabet}

EncInputs == Inputs \cup TieInputs

\* ns are the variables of the loop of compress_normal, bs those of
\* compress_best_impl; from is pos before the last turn
InitEnc ==
    /\ raw \in [input : EncInputs, mode : Modes, pc : {"loop"}, from : {0},
                ns : {[table |-> EmptyTable, out |-> <<>>, anchor |-> 0,
                       pos |-> 0, err |-> "Ok"]},
                bs : {[first |-> EmptyTable, prev |-> EmptyTable, out |-> <<>>,
                       anchor |-> 0, pos |-> 0, err |-> "Ok"]},
                res : {Res("None", <<>>)}]
    /\ tok = Idle /\ fr = Idle /\ w = Idle /\ sink = Idle /\ r = Idle /\ env = Idle

EncCap == max_compressed_size(Len(raw.input))

\* one turn of `while pos + 2 < input.len()` of compress_normal
NormalTurn ==
    /\ raw.pc = "loop" /\ raw.mode = "Normal"
    /\ raw.ns.err = "Ok" /\ raw.ns.pos + 2 < Len(raw.input)
    /\ raw' = [raw EXCEPT !.from = raw.ns.pos,
                          !.ns = normal_step(raw.input, EncCap, raw.ns)]
    /\ UNCHANGED <<tok, fr, w, sink, r, env>>

\* one turn of `while pos + 2 < in_len` of compress_best_impl
BestTurn ==
    /\ raw.pc = "loop" /\ raw.mode = "Best"
    /\ raw.bs.err = "Ok" /\ raw.bs.pos + 2 < Len(raw.input)
    /\ raw' = [raw EXCEPT !.from = raw.bs.pos,
                          !.bs = best_step(raw.input, EncCap, raw.bs)]
    /\ UNCHANGED <<tok, fr, w, sink, r, env>>

\* the loop is left, or not entered: the last literals, Ok(op)
EncReturn ==
    /\ raw.pc = "loop"
    /\ \E st \in {IF raw.mode = "Normal" THEN [err |-> raw.ns.err, out |-> raw.ns.out,
                                              anchor |-> raw.ns.anchor, pos |-> raw.ns.pos]
                  ELSE [err |-> raw.bs.err, out |-> raw.bs.out,
                        anchor |-> raw.bs.anchor, pos |-> raw.bs.pos]} :
           /\ ~(st.err = "Ok" /\ st.pos + 2 < Len(raw.input))
           /\ raw' = [raw EXCEPT !.pc = "done",
                                 !.res = IF Len(raw.input) = 0 THEN Res("Ok", <<>>)
                                         ELSE returned(emit_tail(raw.input, EncCap, st))]
    /\ UNCHANGED <<tok, fr, w, sink, r, env>>

NextEnc == NormalTurn \/ BestTurn \/ EncReturn

SpecEnc == InitEnc /\ [][NextEnc]_vars

\* the longest common prefix of the input at p and at pos, up to max_len,
\* if it is of 3 bytes at least, else 0
MatchAt(input, p, pos, max_len) ==
    LET l == match_len(input, p, pos, 0, max_len)
    IN  IF l >= 3 THEN l ELSE 0

\* one candidate of the chain walk at pos: a.p is visited if it is not
\* below lower_bound, and the walk ends there if it matches max_len bytes,
\* if its link prev[p] is 0 or leads below 0
visit_one(input, prev, pos, max_len, lower_bound, a) ==
    IF a.p < lower_bound THEN [a EXCEPT !.done = TRUE]
    ELSE LET diff == Get(prev, a.p % MAX_OFFSET)
             last == MatchAt(input, a.p, pos, max_len) = max_len
                        \/ diff = 0 \/ a.p < diff
         IN  [v |-> Append(a.v, a.p), p |-> IF last THEN a.p ELSE a.p - diff,
              done |-> last]

\* the candidates that the chain walk at pos visits, in the order of the
\* walk, up to n of them
RECURSIVE visit(_, _, _, _, _, _, _)
visit(input, prev, pos, max_len, lower_bound, a, n) ==
    IF n = 0 \/ a.done THEN a
    ELSE IF n = 1 THEN visit_one(input, prev, pos, max_len, lower_bound, a)
    ELSE LET half == visit(input, prev, pos, max_len, lower_bound, a, n \div 2)
         IN  IF half.done THEN half
             ELSE visit(input, prev, pos, max_len, lower_bound, half, n - n \div 2)

\* the candidates visited from the head of the chain, none for an empty
\* chain; a link is 1 at least, so they are prev_head at most
Visited(input, prev, pos, max_len, lower_bound, prev_head) ==
    IF prev_head = 0 THEN <<>>
    ELSE visit(input, prev, pos, max_len, lower_bound,
               [v |-> <<>>, p |-> prev_head - 1, done |-> FALSE], prev_head).v

\* the lengths of the matches of the candidates v
MatchLens(input, pos, max_len, v) ==
    [i \in DOMAIN v |-> MatchAt(input, v[i], pos, max_len)]

\* the longest of the lengths, 0 without a candidate
Longest(lens) ==
    IF lens = <<>> THEN 0
    ELSE CHOOSE l \in {lens[i] : i \in DOMAIN lens} :
             \A i \in DOMAIN lens : lens[i] <= l

\* the first of the candidates v whose match is of len bytes
FirstLongest(v, lens, len) ==
    v[CHOOSE i \in DOMAIN v :
        lens[i] = len /\ \A j \in 1..(i - 1) : lens[j] # len]

\* the turn of the loop of best mode at pos emitted what selected says:
\* the literals before pos and the back-reference of len bytes to the
\* candidate p, or nothing for a len below 3
BestEmitted(input, cap, st, st1, len, p) ==
    IF len >= 3
    THEN /\ st1.err = "Ok"
         /\ st1.pos = st.pos + len
         /\ st1.out = emit_backref(
                          emit_literals(input, st.out, cap, st.anchor, st.pos).out,
                          cap, st.pos - p - 1, len).out
    ELSE st1.pos = st.pos + 1 /\ st1.out = st.out

\* of the candidates v with the lengths lens, the longest and first is
\* emitted, and no candidate as long is closer
SelectedFrom(input, cap, st, st1, v, lens, len) ==
    /\ BestEmitted(input, cap, st, st1, len,
                   IF len >= 3 THEN FirstLongest(v, lens, len) ELSE 0)
    /\ len >= 3 =>
          \A i \in DOMAIN v :
              lens[i] = len => v[i] <= FirstLongest(v, lens, len)

SelectedAmong(input, cap, st, st1, max_len, v) ==
    SelectedFrom(input, cap, st, st1, v, MatchLens(input, st.pos, max_len, v),
                 Longest(MatchLens(input, st.pos, max_len, v)))

\* C25: best-mode match selection.  In every turn of the loop the
\* back-reference emitted is that of the longest match among the candidates
\* that the chain walk visits and, of the candidates with that length, of
\* the one visited first, which is the closest; without a match of 3 bytes
\* among them nothing is emitted and pos moves on by one.
C25_BestLongestClosest ==
    [][(raw.pc = "loop" /\ raw.mode = "Best" /\ raw'.pc = "loop") =>
          LET input == raw.input
              pos == raw.bs.pos
              prev_head == Get(raw.bs.first, hash_best3(input, pos))
              prev1 == Put(raw.bs.prev, pos % MAX_OFFSET, chain_link(prev_head, pos))
              max_len == Min(Len(input) - pos, MAX_MATCH_LEN)
              lower_bound == IF pos > MAX_OFFSET THEN pos - MAX_OFFSET ELSE 0
          IN  SelectedAmong(input, EncCap, raw.bs, raw'.bs, max_len,
                  Visited(input, prev1, pos, max_len, lower_bound, prev_head))]_vars

\* the third pattern of a tie input was matched: both candidates of its
\* chain match 3 bytes, fewer than max_len, and the back-reference goes to
\* the closer one, at offset 3
C25_Witness ==
    /\ raw.pc = "loop" /\ raw.mode = "Best"
    /\ raw.input \in TieInputs
    /\ raw.input[4] # raw.input[8] /\ raw.input[8] # raw.input[12]
    /\ raw.input[4] # raw.input[12]
    /\ raw.from = 8 /\ raw.bs.pos = 11
    /\ SubSeq(raw.bs.out, Len(raw.bs.out) - 1, Len(raw.bs.out)) = <<32, 3>>

\* the hash of the three bytes at q, as the mode computes it
HashAt(input, mode, q) ==
    IF mode = "Normal" THEN hash3(input, q) ELSE hash_best3(input, q)

\* the head of the chain of hash k once the positions lo..hi are inserted in
\* this order: the last of them with this hash, plus 1, else the head before
HeadAfter(input, mode, lo, hi, k, old) ==
    LET qs == {q \in lo..hi : HashAt(input, mode, q) = k}
    IN  IF qs = {} THEN old
        ELSE (CHOOSE q \in qs : \A q2 \in qs : q2 <= q) + 1

\* the heads t1 are the heads t with the positions lo..hi inserted
HeadsInserted(input, mode, lo, hi, t, t1) ==
    \A k \in DOMAIN t \cup DOMAIN t1 \cup {HashAt(input, mode, q) : q \in lo..hi} :
        Get(t1, k) = HeadAfter(input, mode, lo, hi, k, Get(t, k))

\* the links p1 are the links p with those of the positions lo..hi, each to
\* the head of its chain when it is inserted
LinksInserted(input, lo, hi, first, p, p1) ==
    /\ \A q \in lo..hi :
          Get(p1, q % MAX_OFFSET) =
              chain_link(HeadAfter(input, "Best", lo, q - 1,
                                   hash_best3(input, q),
                                   Get(first, hash_best3(input, q))), q)
    /\ \A s \in (DOMAIN p \cup DOMAIN p1) \ {q % MAX_OFFSET : q \in lo..hi} :
          Get(p1, s) = Get(p, s)

\* the tokens out are those of the first end bytes of the input
EncodedUpTo(input, out, end) ==
    decompress(out, Len(input)) = Res("Ok", Slice(input, 0, end))

\* C26: re-insertion after a match.  A turn of the loop at pos that emits a
\* match of the positions pos..end-1 leaves the table of fast mode, and the
\* chain heads and links of best mode, with pos (inserted before the
\* search) and every position strictly inside the match but the last of
\* them (pos+1..end-3, the loop's `scan + 2 < end`) inserted, in this order,
\* and no other change; the loop goes on at end with no literal pending.
C26_ReinsertInterior ==
    [][/\ (raw.pc = "loop" /\ raw'.pc = "loop" /\ raw.mode = "Normal"
           /\ raw'.ns.pos > raw.ns.pos + 1) =>
             /\ raw'.ns.err = "Ok"
             /\ raw'.ns.anchor = raw'.ns.pos
             /\ EncodedUpTo(raw.input, raw'.ns.out, raw'.ns.pos)
             /\ HeadsInserted(raw.input, "Normal", raw.ns.pos, raw'.ns.pos - 3,
                              raw.ns.table, raw'.ns.table)
       /\ (raw.pc = "loop" /\ raw'.pc = "loop" /\ raw.mode = "Best"
           /\ raw'.bs.pos > raw.bs.pos + 1) =>
             /\ raw'.bs.err = "Ok"
             /\ raw'.bs.anchor = raw'.bs.pos
             /\ EncodedUpTo(raw.input, raw'.bs.out, raw'.bs.pos)
             /\ HeadsInserted(raw.input, "Best", raw.bs.pos, raw'.bs.pos - 3,
                              raw.bs.first, raw'.bs.first)
             /\ LinksInserted(raw.input, raw.bs.pos, raw'.bs.pos - 3,
                              raw.bs.first, raw.bs.prev, raw'.bs.prev)]_vars

\* fast mode has emitted a match of the longest length before the end of
\* the input: the last position inserted is end - 3 and the loop goes on
C26_Witness ==
    /\ raw.pc = "loop" /\ raw.mode = "Normal"
    /\ raw.ns.pos = raw.from + MAX_MATCH_LEN
    /\ raw.ns.pos + 2 < Len(raw.input)
    /\ raw.ns.anchor = raw.ns.pos
    /\ Get(raw.ns.table, hash3(raw.input, raw.ns.pos - 3)) = raw.ns.pos - 2

---------------------------------------------------------------------------
(* the reader after a read that failed                                     *)

\* C27: a reader never delivers bytes of a block that failed to load.  After
\* a read has returned an error no later read returns any bytes, and all
\* that the reader delivers is a prefix of the contents of the blocks that
\* decode_blocks accepts before the malformed one.
C27_NothingAfterError ==
    env.err # "None" =>
        /\ env.late = <<>>
        /\ IsPrefix(env.delivered \o env.late, Decode.out)

---------------------------------------------------------------------------
(* SpecIntr: an LzfReader over a source that answers some of its reads     *)
(* with Interrupted, read by a caller that repeats a read that failed so.  *)
(* read_exact repeats an interrupted read of the source itself; the read   *)
(* of the first byte of a block, `self.inner.read(&mut first)?`, does not. *)

\* the loads of one read call before the source interrupts; MaxLoads
\* itself stands for a call without interruption
MaxLoads == 2

\* load_next_block, the read of the first byte interrupted or not
load_next_block_on(rd, interrupted) ==
    IF rd.finished THEN Ld("Ok", FALSE, rd)
    ELSE IF interrupted THEN Ld("Interrupted", FALSE, rd)
    ELSE load_next_block(rd)

RECURSIVE read_loop_on(_, _, _, _)

\* if !self.load_next_block()? { break }, k loads left to the interruption
read_loaded_on(n, buf, k, l) ==
    IF l.err # "Ok" THEN Rd(l.err, l.r, buf)
    ELSE IF ~l.loaded THEN Rd("Ok", l.r, buf)
    ELSE read_loop_on(l.r, n, buf, IF k = MaxLoads THEN k ELSE k - 1)

\* `while written < buf.len()` of read over this source
read_loop_on(rd, n, buf, k) ==
    IF Len(buf) < n
    THEN IF pending(rd)
         THEN read_loop_on([rd EXCEPT !.out_pos = @ + Min(n - Len(buf),
                                                          Len(rd.out_buf) - rd.out_pos)],
                           n,
                           buf \o Slice(rd.out_buf, rd.out_pos,
                                        rd.out_pos + Min(n - Len(buf),
                                                         Len(rd.out_buf) - rd.out_pos)),
                           k)
         ELSE read_loaded_on(n, buf, k,
                  load_next_block_on([rd EXCEPT !.out_buf = <<>>, !.out_pos = 0],
                                     k = 0))
    ELSE Rd("Ok", rd, buf)

\* LzfReader::read into a buffer of n bytes, the source interrupting the
\* load after k loads
reader_read_on(rd, n, k) ==
    IF n = 0 THEN Rd("Ok", rd, <<>>) ELSE read_loop_on(rd, n, <<>>, k)

\* the blocks of an encoder, with or without a terminator
WellFormed == {p \o t : p \in Prefixes, t \in {<<>>, <<0>>}}

\* env: the caller.  delivered is what its successful reads returned, zero
\* that the last of them returned 0, intrs the reads that failed with
\* Interrupted, err another error of a read
InitIntr ==
    /\ \E s \in WellFormed :
          /\ r = new_reader(s)
          /\ env = [stream |-> s, delivered |-> <<>>, err |-> "None",
                    zero |-> FALSE, intrs |-> 0]
    /\ raw = Idle /\ tok = Idle /\ fr = Idle /\ w = Idle /\ sink = Idle

\* reader.read(&mut [0; n]); after Err(Interrupted) the caller goes on to
\* its next read, the same call again
IntrRead ==
    /\ env.err = "None"
    /\ \E n \in ReadSizes :
          \E k \in (IF env.intrs < MaxInterrupts THEN 0..MaxLoads ELSE {MaxLoads}) :
             \E res \in {reader_read_on(r, n, k)} :
                /\ r' = res.r
                /\ env' = IF res.err = "Ok"
                          THEN [env EXCEPT !.delivered = @ \o res.buf,
                                           !.zero = res.buf = <<>>]
                          ELSE IF res.err = "Interrupted"
                          THEN [env EXCEPT !.intrs = @ + 1, !.zero = FALSE]
                          ELSE [env EXCEPT !.err = res.err]
    /\ UNCHANGED <<raw, tok, fr, w, sink>>

NextIntr == IntrRead

SpecIntr == InitIntr /\ [][NextIntr]_vars

\* C28: an Interrupted of the source never makes a reader lose or repeat
\* data.  On every well-formed stream and for every pattern of
\* interruptions no read fails otherwise, what the successful reads have
\* returned is a prefix of the decoded stream, and all of it once a read has
\* returned 0.
C28_InterruptedLosesNothing ==
    /\ env.err = "None"
    /\ IsPrefix(env.delivered, Decode.out)
    /\ env.zero => env.delivered = Decode.out

---------------------------------------------------------------------------
(* SpecFail: an LzfWriter over a sink that takes a number of bytes and     *)
(* then fails, written to by a caller that repeats a write that failed     *)
(* once the sink takes bytes again.                                        *)

\* the most bytes the sink takes before it fails
MaxRoom == 12

\* the bytes a sink takes once it has recovered: more than any stream here
AmpleRoom == 64

\* a sink: the bytes it holds and the bytes it still takes
Snk(bytes, room) == [bytes |-> bytes, room |-> room]

\* write_all(d) on the sink: all of d, or what the sink still takes and
\* the sink's error
sink_write_all(snk, d) ==
    IF Len(d) <= snk.room
    THEN [err |-> "Ok", snk |-> Snk(snk.bytes \o d, snk.room - Len(d))]
    ELSE [err |-> "Other", snk |-> Snk(snk.bytes \o SubSeq(d, 1, snk.room), 0)]

\* write_block_into on the sink: the write_all calls of the block's frame
\* in their order, up to the first that fails
write_block_on(snk, frame) ==
    IF frame.err # "Ok" THEN [err |-> frame.err, snk |-> snk]
    ELSE sink_write_all(snk, frame.out)

\* write_block_into(..)?; self.in_buf.clear(): in_buf is kept on an error
pending_written_on(wr, res) ==
    IF res.err # "Ok" THEN Wr(res.err, wr, res.snk)
    ELSE Wr("Ok", [wr EXCEPT !.in_buf = <<>>], res.snk)

\* write_block_into(..)?; consumed += self.block_size
whole_block_on(st, block_size, res) ==
    IF res.err # "Ok" THEN [st EXCEPT !.err = res.err, !.sink = res.snk]
    ELSE [err |-> "Ok", sink |-> res.snk, consumed |-> st.consumed + block_size]

\* `while input.len() - consumed >= self.block_size` of write
RECURSIVE write_whole_blocks_on(_, _, _)
write_whole_blocks_on(wr, input, st) ==
    IF st.err = "Ok" /\ Len(input) - st.consumed >= wr.block_size
    THEN write_whole_blocks_on(wr, input,
             whole_block_on(st, wr.block_size,
                 write_block_on(st.sink,
                     write_block_into(wr.mode,
                         Slice(input, st.consumed, st.consumed + wr.block_size)))))
    ELSE st

\* the whole blocks of input are written, the rest is kept
write_rest_on(w2, input, blocks) ==
    IF blocks.err # "Ok" THEN Wr(blocks.err, w2, blocks.sink)
    ELSE keep_rest(w2, blocks.sink, input, blocks.consumed)

\* write after in_buf was topped up (f)
write_input_on(input, f) ==
    IF f.err # "Ok" THEN f
    ELSE write_rest_on(f.w, input,
             write_whole_blocks_on(f.w, input,
                 [err |-> "Ok", sink |-> f.sink, consumed |-> 0]))

\* in_buf topped up with the first take bytes of buf (w1), and emitted if
\* it is full
write_topped_on(wr, w1, snk, buf, take) ==
    write_input_on(Slice(buf, take, Len(buf)),
        IF wr.in_buf # <<>> /\ Len(w1.in_buf) = wr.block_size
        THEN pending_written_on(w1,
                 write_block_on(snk, write_block_into(wr.mode, w1.in_buf)))
        ELSE Wr("Ok", w1, snk))

write_taking_on(wr, snk, buf, take) ==
    write_topped_on(wr, [wr EXCEPT !.in_buf = @ \o Slice(buf, 0, take)],
                    snk, buf, take)

\* LzfWriter::write(buf) over the sink snk
writer_write_on(wr, snk, buf) ==
    write_taking_on(wr, snk, buf,
        IF wr.in_buf # <<>>
        THEN Min(wr.block_size - Len(wr.in_buf), Len(buf)) ELSE 0)

\* env: the caller.  b is what it writes and pos how much of it is written;
\* room is what the sink still takes; at a failed write, k is its length,
\* before the pending bytes before it, and clean tells that the sink holds
\* whole blocks only, no part of the block that failed
InitFail ==
    /\ w \in {new_writer(bs, m, FALSE) : bs \in 1..3, m \in Modes}
    /\ sink = <<>>
    /\ r = Idle
    /\ env \in [b : StreamInputs, pos : {0}, pc : {"writing"}, err : {"None"},
                room : 0..MaxRoom, k : {0}, before : {<<>>}, clean : {TRUE}]
    /\ raw = Idle /\ tok = Idle /\ fr = Idle

\* writer.write(&b[pos..pos + k])
FailWrite ==
    /\ env.pc = "writing"
    /\ \E k \in 1..(Len(env.b) - env.pos) :
          \E res \in {writer_write_on(w, Snk(sink, env.room),
                                      Slice(env.b, env.pos, env.pos + k))} :
              /\ w' = res.w
              /\ sink' = res.sink.bytes
              /\ env' = IF res.err = "Ok"
                        THEN [env EXCEPT !.pos = @ + k, !.room = res.sink.room,
                                         !.err = "Ok"]
                        ELSE [env EXCEPT !.pc = "failed", !.err = res.err,
                                         !.room = res.sink.room, !.k = k,
                                         !.before = w.in_buf,
                                         !.clean = decode_blocks(res.sink.bytes).err = "Ok"]
    /\ UNCHANGED <<raw, tok, fr, r>>

\* the sink takes bytes again
SinkRecovers ==
    /\ env.pc = "failed"
    /\ env' = [env EXCEPT !.pc = "recovered", !.room = AmpleRoom]
    /\ UNCHANGED <<raw, tok, fr, w, sink, r>>

\* the write that failed, again, and finish
WriteAgain ==
    /\ env.pc = "recovered"
    /\ \E res \in {writer_write_on(w, Snk(sink, env.room),
                                   Slice(env.b, env.pos, env.pos + env.k))} :
          \E fin \in {writer_finish(res.w, res.sink.bytes)} :
              /\ w' = fin.w
              /\ sink' = fin.sink
              /\ env' = [env EXCEPT !.pc = "repeated", !.pos = @ + env.k,
                                    !.err = IF res.err # "Ok" THEN res.err ELSE fin.err]
    /\ UNCHANGED <<raw, tok, fr, r>>

NextFail == FailWrite \/ SinkRecovers \/ WriteAgain

SpecFail == InitFail /\ [][NextFail]_vars

\* C29: a failed write leaves the writer unchanged.  When write has
\* returned an error of the sink, the pending bytes are those from before
\* the call, fewer than block_size; and when the sink holds no part of the
\* block that failed, the same write again, successful, and finish leave in
\* the sink a stream of the bytes written, none of them twice.
C29_FailedWriteKeepsWriter ==
    /\ env.pc = "failed" =>
          /\ w.in_buf = env.before
          /\ Len(w.in_buf) < w.block_size
    /\ (env.pc = "repeated" /\ env.err = "Ok" /\ env.clean) =>
          decode_blocks(sink) = Res("Ok", Slice(env.b, 0, env.pos))

---------------------------------------------------------------------------
(* C30 in SpecAuto: write and flush in any order (AutoFinisher::flush is   *)
(* the writer's flush), then finish, run by the drop of the wrapper.       *)

\* a step of AutoFlush
FlushStep == env'.flushes = env.flushes + 1

\* a step of AutoDrop
FinishStep == env.pc = "writing" /\ env'.pc = "dropped"

\* C30: flush.  A flush with bytes pending appends to the sink exactly one
\* block, which decodes to the pending bytes, and a flush with nothing
\* pending appends nothing; either leaves the pending buffer empty and
\* fails in no case.  After finish, whatever the writes and the flushes
\* before it, decode_blocks of the sink is the bytes written, in order.
C30_FlushKeepsContent ==
    [][/\ FlushStep =>
              /\ env'.err = "Ok"
              /\ w'.in_buf = <<>>
              /\ w.in_buf = <<>> => sink' = sink
              /\ w.in_buf # <<>> =>
                    /\ IsPrefix(sink, sink')
                    /\ Len(sink') > Len(sink)
                    /\ Len(w.in_buf) < w.block_size
                    /\ decode_block(sink', Len(sink), <<>>)
                          = Blk("Ok", Len(sink'), w.in_buf, FALSE)
       /\ FinishStep =>
              decode_blocks(sink') = Res("Ok", Slice(env.b, 0, env.pos))]_vars

\* all of b was written, a flush came with bytes pending, finish has run:
\* the sink decodes to b, and its blocks are not those of encode_blocks
\* over b, the flush having cut a short block
C30_Witness ==
    /\ env.pc = "dropped"
    /\ env.flushed
    /\ env.pos = Len(env.b)
    /\ Len(env.b) > w.block_size
    /\ decode_blocks(sink) = Res("Ok", env.b)
    /\ ~IsPrefix(encode_blocks_with_mode(env.b, w.block_size, w.mode).out, sink)

===========================================================================
